---- MODULE Spec2Model ----
(***************************************************************************)
(* Reachability driver of TChecker (tchecker::algorithms::reach) run over  *)
(* a transition system TS and a graph GRAPH, both template parameters.     *)
(*                                                                         *)
(* The transition system is an input.  Its list of initial triples, the    *)
(* accepting labels, the waiting policy and the graph's interning relation *)
(* are drawn in Init.  ts.next is a function of the state: its answer for  *)
(* a state is drawn the first time the driver asks for it and is the same  *)
(* at every later call (tsNext, asked).                                    *)
(*                                                                         *)
(* A state is a number s in 1..MaxState that stands for the zone-graph     *)
(* state whose discrete part (vloc, intval) is Discrete(s) and whose zone  *)
(* is the large zone of that discrete part when s is odd and the small one *)
(* when s is even: state 2k is included in state 2k-1.                     *)
(*                                                                         *)
(* Two runs are modelled (Runs).  Spec runs the driver once (run 1);       *)
(* SpecTwo runs it a second time on a fresh graph with the same inputs.    *)
(***************************************************************************)
EXTENDS Integers, Sequences, FiniteSets, TLC

\* ------------------------------------------------------------------ bounds
MaxState == 3      \* number of states of the transition system
MaxTriples == 3    \* total number of triples ts.initial and ts.next emit

\* visited_states never exceeds this in a run of the driver; the guard of the
\* loop caps the counter so that a driver that loops forever stays finite
CapVisited == MaxState + 2

States == 1..MaxState
Runs == {1, 2}

\* --------------------------------------------------- the transition system
STATE_OK == "STATE_OK"
STATE_GUARD_VIOLATED == "STATE_GUARD_VIOLATED"
Status == {STATE_OK, STATE_GUARD_VIOLATED}

FIFO == "FIFO"
LIFO == "LIFO"
Policies == {FIFO, LIFO}

EQUALITY == "equality"
SUBSUMPTION == "subsumption"
Interning == {EQUALITY, SUBSUMPTION}

LabelSets == {{}, {"a"}, {"a", "b"}}

\* (status, state) pairs; the transition t of a triple is its position in
\* the list that ts emitted
Pairs == [status : Status, s : States]

SeqUpTo(S, n) == UNION {[1..m -> S] : m \in 0..n}

\* The list of triples (status, s, t) made from a list of (status, s) pairs
Sst(ps) == [i \in 1..Len(ps) |-> [status |-> ps[i].status, s |-> ps[i].s, t |-> i]]

Discrete(s) == (s + 1) \div 2
LargeZone(s) == s % 2 = 1

\* ts.labels(s): the labels of the locations of s
tsLabels(s) ==
  CASE Discrete(s) = 1 -> {"a"}
    [] Discrete(s) = 2 -> {"a", "b"}
    [] OTHER -> {}

\* ts.is_valid_final(s): the zone of s holds a valid final valuation
tsValidFinal(s) == LargeZone(s)

\* s1 <= s2 on zone-graph states: same discrete part and zone inclusion
StateLe(s1, s2) == Discrete(s1) = Discrete(s2) /\ (s1 = s2 \/ LargeZone(s2))

VARIABLES
  tsInitial,   \* the list ts.initial fills
  tsNext,      \* tsNext[s]: the list ts.next fills from s, for s in asked
  asked,       \* the states ts.next has been called on
  labels,      \* the accepting labels
  policy,      \* the waiting policy
  interning,   \* how graph.add_node finds an existing node
  graph0,      \* the nodes of the graph that run is given
  pc,          \* pc[k]: position of run k
  nodes,       \* nodes[k]: the nodes of the graph, in order of creation
  edges,       \* edges[k]: the edges of the graph, in order of creation
  waiting,     \* waiting[k]: the waiting list (node ids)
  sst,         \* sst[k]: the triples the current for loop still has to do
  node,        \* node[k]: the node popped last (0: none)
  stats,       \* stats[k]: visited_states, visited_transitions, reachable
  order,       \* order[k]: the nodes popped, in order
  expanded,    \* expanded[k]: the nodes ts.next was called on, in order
  cbm,         \* a clock-bound map object, of one of the four classes
  cbout,       \* the last call on cbm: its arguments and what it returned
  calls,       \* the number of calls made on cbm
  zs,          \* two zone-graph states, for the relations and hashes on states
  zgout,       \* the last call on the states of zs and what it returned
  taIn,        \* the arguments of a call of the timed-automaton semantics
  taOut        \* that call and what it returned

tsVars == <<tsInitial, tsNext, asked, labels, policy, interning, graph0>>
runVars == <<pc, nodes, edges, waiting, sst, node, stats, order, expanded>>
cbVars == <<cbm, cbout, calls>>

\* what the driver does not touch
zgVars == <<zs, zgout>>
taVars == <<taIn, taOut>>
libVars == <<cbVars, zgVars, taVars>>
vars == <<tsInitial, tsNext, asked, labels, policy, interning, graph0,
          pc, nodes, edges, waiting, sst, node, stats, order, expanded,
          cbm, cbout, calls, zs, zgout, taIn, taOut>>

\* no clock-bound map object has been made
cbIdle ==
  /\ cbm = [class |-> "none"]
  /\ cbout = [op |-> "none"]
  /\ calls = 0

\* no zone-graph state has been made
zgIdle ==
  /\ zs = <<>>
  /\ zgout = [op |-> "none"]

\* no call of the timed-automaton semantics has been made
taIdle ==
  /\ taIn = [op |-> "none"]
  /\ taOut = [op |-> "none"]

libIdle == cbIdle /\ zgIdle /\ taIdle

\* number of triples ts has emitted so far, and what it may still emit
RECURSIVE SumLen(_)
SumLen(S) ==
  IF S = {} THEN 0
  ELSE LET x == CHOOSE y \in S : TRUE IN Len(tsNext[x]) + SumLen(S \ {x})

Emitted == Len(tsInitial) + SumLen(asked)

\* the lists ts.next(s, sst) may fill: the one it filled before, if any
NextLists(s) ==
  IF s \in asked THEN {tsNext[s]}
  ELSE {Sst(ps) : ps \in SeqUpTo(Pairs, MaxTriples - Emitted)}

\* ------------------------------------------------------------- the graph
NewNode(s) == [state |-> s, initial |-> FALSE, final |-> FALSE]

\* the node n stands for state s: equal to it, or including it
Covers(n, s) ==
  IF interning = EQUALITY THEN n.state = s ELSE StateLe(s, n.state)

Found(ns, s) == {i \in 1..Len(ns) : Covers(ns[i], s)}

Min(S) == CHOOSE x \in S : \A y \in S : x <= y

\* graph.add_node(s) returns (is_new_node, node) and leaves the graph AddNode
IsNewNode(ns, s) == Found(ns, s) = {}
NodeOf(ns, s) == IF IsNewNode(ns, s) THEN Len(ns) + 1 ELSE Min(Found(ns, s))
AddNode(ns, s) == IF IsNewNode(ns, s) THEN Append(ns, NewNode(s)) ELSE ns

\* the graphs run is given: empty, or holding one node, for the first state,
\* that is not initial and may be final
Graphs == {<<>>} \cup {<<[NewNode(Min(States)) EXCEPT !.final = f]>> : f \in BOOLEAN}

\* graph.add_edge(src, tgt, t)
AddEdge(es, src, tgt, t) == Append(es, [src |-> src, tgt |-> tgt, t |-> t])

\* ------------------------------------------------------ the waiting list
Insert(w, n) == Append(w, n)
FirstPos(w) == IF policy = FIFO THEN 1 ELSE Len(w)
First(w) == w[FirstPos(w)]
RemoveFirst(w) ==
  [i \in 1..(Len(w) - 1) |-> IF i < FirstPos(w) THEN w[i] ELSE w[i + 1]]

\* ----------------------------------------------------------- the driver
Init ==
  /\ tsInitial \in {Sst(ps) : ps \in SeqUpTo(Pairs, MaxTriples)}
  /\ tsNext = [s \in States |-> <<>>]
  /\ asked = {}
  /\ labels \in LabelSets
  /\ policy \in Policies
  /\ interning \in Interning
  /\ graph0 \in Graphs
  /\ pc = [k \in Runs |-> "start"]
  /\ nodes = [k \in Runs |-> graph0]
  /\ edges = [k \in Runs |-> <<>>]
  /\ waiting = [k \in Runs |-> <<>>]
  /\ sst = [k \in Runs |-> <<>>]
  /\ node = [k \in Runs |-> 0]
  /\ stats = [k \in Runs |->
               [visited_states |-> 0, visited_transitions |-> 0, reachable |-> FALSE]]
  /\ order = [k \in Runs |-> <<>>]
  /\ expanded = [k \in Runs |-> <<>>]
  /\ libIdle

\* no run of the driver has been asked for
driverIdle ==
  /\ tsInitial = <<>>
  /\ tsNext = [s \in States |-> <<>>]
  /\ asked = {}
  /\ labels = {}
  /\ policy = FIFO
  /\ interning = EQUALITY
  /\ graph0 = <<>>
  /\ pc = [k \in Runs |-> "idle"]
  /\ nodes = [k \in Runs |-> <<>>]
  /\ edges = [k \in Runs |-> <<>>]
  /\ waiting = [k \in Runs |-> <<>>]
  /\ sst = [k \in Runs |-> <<>>]
  /\ node = [k \in Runs |-> 0]
  /\ stats = [k \in Runs |->
               [visited_states |-> 0, visited_transitions |-> 0, reachable |-> FALSE]]
  /\ order = [k \in Runs |-> <<>>]
  /\ expanded = [k \in Runs |-> <<>>]

\* accepting without the test !labels.none()
AcceptingNoEmptyTest(s) == labels \subseteq tsLabels(s) /\ tsValidFinal(s)

\* accepting(n, ts, labels)
Accepting(s) == labels # {} /\ labels \subseteq tsLabels(s) /\ tsValidFinal(s)

\* run: ts.initial(sst)
Initial(k) ==
  /\ pc[k] = "start"
  /\ sst' = [sst EXCEPT ![k] = tsInitial]
  /\ pc' = [pc EXCEPT ![k] = IF tsInitial = <<>> THEN "loop" ELSE "seed"]
  /\ UNCHANGED <<libVars, tsVars, nodes, edges, waiting, node, stats, order, expanded>>

\* SeedNode without initial_node->initial(true)
SeedNodeNoFlag(k) ==
  /\ pc[k] = "seed"
  /\ LET s == Head(sst[k]).s
         is_new_node == IsNewNode(nodes[k], s)
         initial_node == NodeOf(nodes[k], s)
     IN /\ nodes' = [nodes EXCEPT ![k] = AddNode(nodes[k], s)]
        /\ waiting' = [waiting EXCEPT ![k] =
                         IF is_new_node THEN Insert(@, initial_node) ELSE @]
  /\ sst' = [sst EXCEPT ![k] = Tail(@)]
  /\ pc' = [pc EXCEPT ![k] = IF Tail(sst[k]) = <<>> THEN "loop" ELSE "seed"]
  /\ UNCHANGED <<libVars, tsVars, edges, node, stats, order, expanded>>

\* SeedNode with initial_node->initial(true) under if (is_new_node)
SeedNodeFlagIfNew(k) ==
  /\ pc[k] = "seed"
  /\ LET s == Head(sst[k]).s
         is_new_node == IsNewNode(nodes[k], s)
         initial_node == NodeOf(nodes[k], s)
     IN /\ nodes' = [nodes EXCEPT ![k] =
                       IF is_new_node
                       THEN [AddNode(nodes[k], s) EXCEPT ![initial_node].initial = TRUE]
                       ELSE nodes[k]]
        /\ waiting' = [waiting EXCEPT ![k] =
                         IF is_new_node THEN Insert(@, initial_node) ELSE @]
  /\ sst' = [sst EXCEPT ![k] = Tail(@)]
  /\ pc' = [pc EXCEPT ![k] = IF Tail(sst[k]) = <<>> THEN "loop" ELSE "seed"]
  /\ UNCHANGED <<libVars, tsVars, edges, node, stats, order, expanded>>

\* run: one turn of the loop over the initial triples
SeedNode(k) ==
  /\ pc[k] = "seed"
  /\ LET s == Head(sst[k]).s
         is_new_node == IsNewNode(nodes[k], s)
         initial_node == NodeOf(nodes[k], s)
     IN /\ nodes' = [nodes EXCEPT ![k] =
                       [AddNode(nodes[k], s) EXCEPT ![initial_node].initial = TRUE]]
        /\ waiting' = [waiting EXCEPT ![k] =
                         IF is_new_node THEN Insert(@, initial_node) ELSE @]
  /\ sst' = [sst EXCEPT ![k] = Tail(@)]
  /\ pc' = [pc EXCEPT ![k] = IF Tail(sst[k]) = <<>> THEN "loop" ELSE "seed"]
  /\ UNCHANGED <<libVars, tsVars, edges, node, stats, order, expanded>>

\* PopAccepting without its break: the turn goes on to ts.next
PopAcceptingNoBreak(k) ==
  /\ pc[k] = "loop"
  /\ waiting[k] # <<>>
  /\ stats[k].visited_states < CapVisited
  /\ LET n == First(waiting[k])
         s == nodes[k][n].state
     IN /\ Accepting(s)
        /\ node' = [node EXCEPT ![k] = n]
        /\ order' = [order EXCEPT ![k] = Append(@, n)]
        /\ nodes' = [nodes EXCEPT ![k][n].final = TRUE]
        /\ expanded' = [expanded EXCEPT ![k] = Append(@, n)]
        /\ \E l \in NextLists(s) :
             /\ tsNext' = [tsNext EXCEPT ![s] = l]
             /\ asked' = asked \cup {s}
             /\ sst' = [sst EXCEPT ![k] = l]
             /\ pc' = [pc EXCEPT ![k] = IF l = <<>> THEN "loop" ELSE "succ"]
  /\ stats' = [stats EXCEPT ![k].visited_states = @ + 1, ![k].reachable = TRUE]
  /\ waiting' = [waiting EXCEPT ![k] = RemoveFirst(@)]
  /\ UNCHANGED <<libVars, tsInitial, labels, policy, interning, graph0, edges>>

\* PopAccepting without node->final(true)
PopAcceptingNoFlag(k) ==
  /\ pc[k] = "loop"
  /\ waiting[k] # <<>>
  /\ stats[k].visited_states < CapVisited
  /\ LET n == First(waiting[k])
     IN /\ Accepting(nodes[k][n].state)
        /\ node' = [node EXCEPT ![k] = n]
        /\ order' = [order EXCEPT ![k] = Append(@, n)]
  /\ stats' = [stats EXCEPT ![k].visited_states = @ + 1, ![k].reachable = TRUE]
  /\ waiting' = [waiting EXCEPT ![k] = <<>>]
  /\ pc' = [pc EXCEPT ![k] = "done"]
  /\ UNCHANGED <<libVars, tsVars, nodes, edges, sst, expanded>>

\* PopAccepting with ++stats.visited_states() after the accepting test
PopAcceptingNoCount(k) ==
  /\ pc[k] = "loop"
  /\ waiting[k] # <<>>
  /\ stats[k].visited_states < CapVisited
  /\ LET n == First(waiting[k])
     IN /\ Accepting(nodes[k][n].state)
        /\ node' = [node EXCEPT ![k] = n]
        /\ order' = [order EXCEPT ![k] = Append(@, n)]
        /\ nodes' = [nodes EXCEPT ![k][n].final = TRUE]
  /\ stats' = [stats EXCEPT ![k].reachable = TRUE]
  /\ waiting' = [waiting EXCEPT ![k] = <<>>]
  /\ pc' = [pc EXCEPT ![k] = "done"]
  /\ UNCHANGED <<libVars, tsVars, edges, sst, expanded>>

\* PopAccepting that returns at the break, without waiting.clear()
PopAcceptingNoClear(k) ==
  /\ pc[k] = "loop"
  /\ waiting[k] # <<>>
  /\ stats[k].visited_states < CapVisited
  /\ LET n == First(waiting[k])
     IN /\ Accepting(nodes[k][n].state)
        /\ node' = [node EXCEPT ![k] = n]
        /\ order' = [order EXCEPT ![k] = Append(@, n)]
        /\ nodes' = [nodes EXCEPT ![k][n].final = TRUE]
  /\ stats' = [stats EXCEPT ![k].visited_states = @ + 1, ![k].reachable = TRUE]
  /\ waiting' = [waiting EXCEPT ![k] = RemoveFirst(@)]
  /\ pc' = [pc EXCEPT ![k] = "done"]
  /\ UNCHANGED <<libVars, tsVars, edges, sst, expanded>>

\* run_from_waiting: a turn of the while loop that pops an accepting node
PopAccepting(k) ==
  /\ pc[k] = "loop"
  /\ waiting[k] # <<>>
  /\ stats[k].visited_states < CapVisited
  /\ LET n == First(waiting[k])
     IN /\ Accepting(nodes[k][n].state)
        /\ node' = [node EXCEPT ![k] = n]
        /\ order' = [order EXCEPT ![k] = Append(@, n)]
        /\ nodes' = [nodes EXCEPT ![k][n].final = TRUE]
  /\ stats' = [stats EXCEPT ![k].visited_states = @ + 1, ![k].reachable = TRUE]
  /\ waiting' = [waiting EXCEPT ![k] = <<>>]
  /\ pc' = [pc EXCEPT ![k] = "done"]
  /\ UNCHANGED <<libVars, tsVars, edges, sst, expanded>>

\* run_from_waiting: a turn of the while loop that pops a node which is not
\* accepting, up to the call of ts.next
PopExpand(k) ==
  /\ pc[k] = "loop"
  /\ waiting[k] # <<>>
  /\ stats[k].visited_states < CapVisited
  /\ LET n == First(waiting[k])
         s == nodes[k][n].state
     IN /\ ~Accepting(s)
        /\ node' = [node EXCEPT ![k] = n]
        /\ order' = [order EXCEPT ![k] = Append(@, n)]
        /\ expanded' = [expanded EXCEPT ![k] = Append(@, n)]
        /\ \E l \in NextLists(s) :
             /\ tsNext' = [tsNext EXCEPT ![s] = l]
             /\ asked' = asked \cup {s}
             /\ sst' = [sst EXCEPT ![k] = l]
             /\ pc' = [pc EXCEPT ![k] = IF l = <<>> THEN "loop" ELSE "succ"]
  /\ waiting' = [waiting EXCEPT ![k] = RemoveFirst(@)]
  /\ stats' = [stats EXCEPT ![k].visited_states = @ + 1]
  /\ UNCHANGED <<libVars, tsInitial, labels, policy, interning, graph0, nodes, edges>>

\* SuccTriple with graph.add_edge under if (is_new_node)
SuccTripleEdgeIfNew(k) ==
  /\ pc[k] = "succ"
  /\ LET tr == Head(sst[k])
         is_new_node == IsNewNode(nodes[k], tr.s)
         next_node == NodeOf(nodes[k], tr.s)
     IN /\ nodes' = [nodes EXCEPT ![k] = AddNode(@, tr.s)]
        /\ waiting' = [waiting EXCEPT ![k] =
                         IF is_new_node THEN Insert(@, next_node) ELSE @]
        /\ edges' = [edges EXCEPT ![k] =
                       IF is_new_node THEN AddEdge(@, node[k], next_node, tr.t) ELSE @]
  /\ stats' = [stats EXCEPT ![k].visited_transitions = @ + 1]
  /\ sst' = [sst EXCEPT ![k] = Tail(@)]
  /\ pc' = [pc EXCEPT ![k] = IF Tail(sst[k]) = <<>> THEN "loop" ELSE "succ"]
  /\ UNCHANGED <<libVars, tsVars, node, order, expanded>>

\* SuccTriple that skips the triples whose status is not STATE_OK
SuccTripleOnlyOK(k) ==
  /\ pc[k] = "succ"
  /\ LET tr == Head(sst[k])
         is_new_node == IsNewNode(nodes[k], tr.s)
         next_node == NodeOf(nodes[k], tr.s)
     IN IF tr.status = STATE_OK
        THEN /\ nodes' = [nodes EXCEPT ![k] = AddNode(@, tr.s)]
             /\ waiting' = [waiting EXCEPT ![k] =
                              IF is_new_node THEN Insert(@, next_node) ELSE @]
             /\ edges' = [edges EXCEPT ![k] = AddEdge(@, node[k], next_node, tr.t)]
             /\ stats' = [stats EXCEPT ![k].visited_transitions = @ + 1]
        ELSE UNCHANGED <<nodes, waiting, edges, stats>>
  /\ sst' = [sst EXCEPT ![k] = Tail(@)]
  /\ pc' = [pc EXCEPT ![k] = IF Tail(sst[k]) = <<>> THEN "loop" ELSE "succ"]
  /\ UNCHANGED <<libVars, tsVars, node, order, expanded>>

\* SuccTriple with waiting.insert outside if (is_new_node)
SuccTripleInsertAlways(k) ==
  /\ pc[k] = "succ"
  /\ LET tr == Head(sst[k])
         next_node == NodeOf(nodes[k], tr.s)
     IN /\ nodes' = [nodes EXCEPT ![k] = AddNode(@, tr.s)]
        /\ waiting' = [waiting EXCEPT ![k] = Insert(@, next_node)]
        /\ edges' = [edges EXCEPT ![k] = AddEdge(@, node[k], next_node, tr.t)]
  /\ stats' = [stats EXCEPT ![k].visited_transitions = @ + 1]
  /\ sst' = [sst EXCEPT ![k] = Tail(@)]
  /\ pc' = [pc EXCEPT ![k] = IF Tail(sst[k]) = <<>> THEN "loop" ELSE "succ"]
  /\ UNCHANGED <<libVars, tsVars, node, order, expanded>>

\* SuccTriple that takes the triples of sst in no fixed order
SuccTripleAnyOrder(k) ==
  /\ pc[k] = "succ"
  /\ \E p \in DOMAIN sst[k] :
       LET tr == sst[k][p]
           is_new_node == IsNewNode(nodes[k], tr.s)
           next_node == NodeOf(nodes[k], tr.s)
       IN /\ nodes' = [nodes EXCEPT ![k] = AddNode(@, tr.s)]
          /\ waiting' = [waiting EXCEPT ![k] =
                           IF is_new_node THEN Insert(@, next_node) ELSE @]
          /\ edges' = [edges EXCEPT ![k] = AddEdge(@, node[k], next_node, tr.t)]
          /\ sst' = [sst EXCEPT ![k] =
                       [i \in 1..(Len(@) - 1) |-> IF i < p THEN @[i] ELSE @[i + 1]]]
  /\ stats' = [stats EXCEPT ![k].visited_transitions = @ + 1]
  /\ pc' = [pc EXCEPT ![k] = IF Len(sst[k]) = 1 THEN "loop" ELSE "succ"]
  /\ UNCHANGED <<libVars, tsVars, node, order, expanded>>

\* SuccTriple with ++stats.visited_transitions() under if (is_new_node)
SuccTripleCountIfNew(k) ==
  /\ pc[k] = "succ"
  /\ LET tr == Head(sst[k])
         is_new_node == IsNewNode(nodes[k], tr.s)
         next_node == NodeOf(nodes[k], tr.s)
     IN /\ nodes' = [nodes EXCEPT ![k] = AddNode(@, tr.s)]
        /\ waiting' = [waiting EXCEPT ![k] =
                         IF is_new_node THEN Insert(@, next_node) ELSE @]
        /\ edges' = [edges EXCEPT ![k] = AddEdge(@, node[k], next_node, tr.t)]
        /\ stats' = [stats EXCEPT ![k].visited_transitions =
                       IF is_new_node THEN @ + 1 ELSE @]
  /\ sst' = [sst EXCEPT ![k] = Tail(@)]
  /\ pc' = [pc EXCEPT ![k] = IF Tail(sst[k]) = <<>> THEN "loop" ELSE "succ"]
  /\ UNCHANGED <<libVars, tsVars, node, order, expanded>>

\* SuccTriple with next_node->initial(true) on a new node, as the loop over
\* the initial triples has it
SuccTripleFlagsNew(k) ==
  /\ pc[k] = "succ"
  /\ LET tr == Head(sst[k])
         is_new_node == IsNewNode(nodes[k], tr.s)
         next_node == NodeOf(nodes[k], tr.s)
     IN /\ nodes' = [nodes EXCEPT ![k] =
                       IF is_new_node
                       THEN [AddNode(@, tr.s) EXCEPT ![next_node].initial = TRUE]
                       ELSE @]
        /\ waiting' = [waiting EXCEPT ![k] =
                         IF is_new_node THEN Insert(@, next_node) ELSE @]
        /\ edges' = [edges EXCEPT ![k] = AddEdge(@, node[k], next_node, tr.t)]
  /\ stats' = [stats EXCEPT ![k].visited_transitions = @ + 1]
  /\ sst' = [sst EXCEPT ![k] = Tail(@)]
  /\ pc' = [pc EXCEPT ![k] = IF Tail(sst[k]) = <<>> THEN "loop" ELSE "succ"]
  /\ UNCHANGED <<libVars, tsVars, node, order, expanded>>

\* run_from_waiting: one turn of the loop over the successor triples
SuccTriple(k) ==
  /\ pc[k] = "succ"
  /\ LET tr == Head(sst[k])
         is_new_node == IsNewNode(nodes[k], tr.s)
         next_node == NodeOf(nodes[k], tr.s)
     IN /\ nodes' = [nodes EXCEPT ![k] = AddNode(@, tr.s)]
        /\ waiting' = [waiting EXCEPT ![k] =
                         IF is_new_node THEN Insert(@, next_node) ELSE @]
        /\ edges' = [edges EXCEPT ![k] = AddEdge(@, node[k], next_node, tr.t)]
  /\ stats' = [stats EXCEPT ![k].visited_transitions = @ + 1]
  /\ sst' = [sst EXCEPT ![k] = Tail(@)]
  /\ pc' = [pc EXCEPT ![k] = IF Tail(sst[k]) = <<>> THEN "loop" ELSE "succ"]
  /\ UNCHANGED <<libVars, tsVars, node, order, expanded>>

\* run_from_waiting: the waiting list is empty, the loop ends
Exit(k) ==
  /\ pc[k] = "loop"
  /\ waiting[k] = <<>>
  /\ waiting' = [waiting EXCEPT ![k] = <<>>]
  /\ pc' = [pc EXCEPT ![k] = "done"]
  /\ UNCHANGED <<libVars, tsVars, nodes, edges, sst, node, stats, order, expanded>>

Next ==
  \/ Initial(1)
  \/ SeedNode(1)
  \/ PopAccepting(1)
  \/ PopExpand(1)
  \/ SuccTriple(1)
  \/ Exit(1)

Spec == Init /\ [][Next]_vars

\* a second run of the driver, on a fresh graph, once the first has returned
NextTwo ==
  \/ Next
  \/ pc[1] = "done" /\ Initial(2)
  \/ pc[1] = "done" /\ SeedNode(2)
  \/ pc[1] = "done" /\ PopAccepting(2)
  \/ pc[1] = "done" /\ PopExpand(2)
  \/ pc[1] = "done" /\ SuccTriple(2)
  \/ pc[1] = "done" /\ Exit(2)

\* the two runs are given empty graphs
InitTwo == Init /\ graph0 = <<>>

SpecTwo == InitTwo /\ [][NextTwo]_vars

\* run: ts.initial raises; nothing catches it and run is left
InitialFatal(k) ==
  /\ pc[k] = "start"
  /\ pc' = [pc EXCEPT ![k] = "aborted"]
  /\ UNCHANGED <<libVars, tsVars, nodes, edges, waiting, sst, node, stats, order, expanded>>

\* NextFatal with a handler that takes back what the run added to the graph
NextFatalRollback(k) ==
  /\ pc[k] = "loop"
  /\ waiting[k] # <<>>
  /\ stats[k].visited_states < CapVisited
  /\ LET n == First(waiting[k])
         s == nodes[k][n].state
     IN /\ ~Accepting(s)
        /\ s \notin asked
        /\ node' = [node EXCEPT ![k] = n]
        /\ order' = [order EXCEPT ![k] = Append(@, n)]
        /\ expanded' = [expanded EXCEPT ![k] = Append(@, n)]
  /\ waiting' = [waiting EXCEPT ![k] = RemoveFirst(@)]
  /\ stats' = [stats EXCEPT ![k].visited_states = @ + 1]
  /\ nodes' = [nodes EXCEPT ![k] = graph0]
  /\ edges' = [edges EXCEPT ![k] = <<>>]
  /\ pc' = [pc EXCEPT ![k] = "aborted"]
  /\ UNCHANGED <<libVars, tsVars, sst>>

\* run_from_waiting: a turn of the while loop in which ts.next raises: the
\* node has been popped and counted, nothing catches the exception, and the
\* loop and run are left without reaching waiting.clear()
NextFatal(k) ==
  /\ pc[k] = "loop"
  /\ waiting[k] # <<>>
  /\ stats[k].visited_states < CapVisited
  /\ LET n == First(waiting[k])
         s == nodes[k][n].state
     IN /\ ~Accepting(s)
        /\ s \notin asked
        /\ node' = [node EXCEPT ![k] = n]
        /\ order' = [order EXCEPT ![k] = Append(@, n)]
        /\ expanded' = [expanded EXCEPT ![k] = Append(@, n)]
  /\ waiting' = [waiting EXCEPT ![k] = RemoveFirst(@)]
  /\ stats' = [stats EXCEPT ![k].visited_states = @ + 1]
  /\ pc' = [pc EXCEPT ![k] = "aborted"]
  /\ UNCHANGED <<libVars, tsVars, nodes, edges, sst>>

\* the graphs run(ts, graph, labels, waiting) is given: one or two nodes that
\* are neither initial nor final
GivenGraphs ==
  {<<NewNode(s)>> : s \in States}
    \cup {<<NewNode(s + 1), NewNode(s)>> : s \in 1..(MaxState - 1)}

\* run(ts, graph, labels, waiting): the caller has put the first m nodes of
\* the graph in the waiting list, and run enters run_from_waiting at once
InitWaiting ==
  /\ tsInitial = Sst(<<[status |-> STATE_OK, s |-> Min(States)]>>)
  /\ tsNext = [s \in States |-> <<>>]
  /\ asked = {}
  /\ labels \in LabelSets
  /\ policy \in Policies
  /\ interning \in Interning
  /\ graph0 \in GivenGraphs
  /\ pc = [k \in Runs |-> IF k = 1 THEN "loop" ELSE "start"]
  /\ nodes = [k \in Runs |-> graph0]
  /\ edges = [k \in Runs |-> <<>>]
  /\ \E m \in 0..Len(graph0) :
       waiting = [k \in Runs |-> IF k = 1 THEN [i \in 1..m |-> i] ELSE <<>>]
  /\ sst = [k \in Runs |-> <<>>]
  /\ node = [k \in Runs |-> 0]
  /\ stats = [k \in Runs |->
               [visited_states |-> 0, visited_transitions |-> 0, reachable |-> FALSE]]
  /\ order = [k \in Runs |-> <<>>]
  /\ expanded = [k \in Runs |-> <<>>]
  /\ libIdle

\* either overload of run
InitAny == Init \/ InitWaiting

\* a run of the driver over a ts that may raise
NextAny ==
  \/ Next
  \/ InitialFatal(1)
  \/ NextFatal(1)

SpecAny == InitAny /\ [][NextAny]_vars

\* ------------------------------------------------------------ the claims
Ids(k) == 1..Len(nodes[k])
Finals(k) == {i \in Ids(k) : nodes[k][i].final}
Initials(k) == {i \in Ids(k) : nodes[k][i].initial}
StateOf(k, i) == nodes[k][i].state
Range(f) == {f[i] : i \in DOMAIN f}

\* run k is about to pop an accepting node
AtAccepting(k) ==
  /\ pc[k] = "loop"
  /\ waiting[k] # <<>>
  /\ Accepting(StateOf(k, First(waiting[k])))

\* a step of run k
Step(k) ==
  <<pc[k], nodes[k], edges[k], waiting[k], sst[k], node[k], stats[k], order[k],
    expanded[k]>>
  # <<pc'[k], nodes'[k], edges'[k], waiting'[k], sst'[k], node'[k], stats'[k],
      order'[k], expanded'[k]>>

\* C1: when the node popped is accepting, that node is flagged final,
\* reachable is set and the run is over: ts.next is not called on the node,
\* and once the run is over no node is popped and the graph does not change.
C1_AcceptingStops ==
  [][\A k \in Runs :
       /\ (AtAccepting(k) /\ Step(k)) =>
            LET n == First(waiting[k])
            IN /\ nodes'[k] = [nodes[k] EXCEPT ![n].final = TRUE]
               /\ stats'[k].reachable
               /\ pc'[k] = "done"
               /\ order'[k] = Append(order[k], n)
               /\ expanded'[k] = expanded[k]
               /\ asked' = asked
               /\ edges'[k] = edges[k]
       /\ pc[k] = "done" =>
            /\ pc'[k] = "done"
            /\ nodes'[k] = nodes[k]
            /\ edges'[k] = edges[k]
            /\ order'[k] = order[k]
            /\ expanded'[k] = expanded[k]]_vars

\* the run stopped on an accepting node while other nodes were waiting
C1_Witness ==
  /\ pc[1] = "done"
  /\ stats[1].reachable
  /\ nodes[1][node[1]].final
  /\ \E i \in Ids(1) : i \notin Range(order[1]) /\ i > Len(graph0)

\* C2: when run returns on a graph that had no final node, either
\* reachable is true and exactly one node is final, and it is accepting, or
\* reachable is false and no node is final.
C2_OneFinalOrNone ==
  (pc[1] = "done" /\ \A i \in DOMAIN graph0 : ~graph0[i].final) =>
    \/ /\ stats[1].reachable
       /\ Cardinality(Finals(1)) = 1
       /\ \A i \in Finals(1) : Accepting(StateOf(1, i))
    \/ /\ ~stats[1].reachable
       /\ Finals(1) = {}

\* the run returned reachable with two accepting nodes in the graph
C2_Witness ==
  /\ pc[1] = "done"
  /\ \A i \in DOMAIN graph0 : ~graph0[i].final
  /\ stats[1].reachable
  /\ Cardinality({i \in Ids(1) : Accepting(StateOf(1, i))}) >= 2


\* the states of ts reachable from its initial triples through ts.next
RECURSIVE ReachFrom(_)
ReachFrom(S) ==
  LET T == S \cup UNION {{tsNext[s][j].s : j \in DOMAIN tsNext[s]} : s \in S}
  IN IF T = S THEN S ELSE ReachFrom(T)

InitialStates == {tsInitial[i].s : i \in DOMAIN tsInitial}
Reach == ReachFrom(InitialStates)

\* the transitions ts.next emits from the reachable states
Transitions ==
  UNION {{<<s, tsNext[s][j].s, j>> : j \in DOMAIN tsNext[s]} : s \in Reach}

\* the edges of the graph of run k, as (source state, target state, t)
EdgeSet(k) ==
  {<<StateOf(k, edges[k][i].src), StateOf(k, edges[k][i].tgt), edges[k][i].t>> :
     i \in DOMAIN edges[k]}

\* C3: when run returns reachable = false on an initially empty graph that
\* interns by equality, the graph is the reachability graph of ts: one node
\* for each reachable state (ts.next has been called on each), one edge for
\* each transition ts.next emits from them, and nothing else.
C3_FullGraph ==
  (pc[1] = "done" /\ ~stats[1].reachable /\ graph0 = <<>> /\ interning = EQUALITY) =>
    /\ {StateOf(1, i) : i \in Ids(1)} = Reach
    /\ Len(nodes[1]) = Cardinality(Reach)
    /\ Reach \subseteq asked
    /\ EdgeSet(1) = Transitions
    /\ Len(edges[1]) = Cardinality(Transitions)

\* a full graph with a node reached twice
C3_Witness ==
  /\ pc[1] = "done" /\ ~stats[1].reachable /\ graph0 = <<>> /\ interning = EQUALITY
  /\ labels # {}
  /\ Len(nodes[1]) >= 2
  /\ Len(edges[1]) > Len(nodes[1]) - Cardinality(Initials(1))

\* the nodes of run k reachable from the nodes in N along the edges
RECURSIVE GraphReach(_, _)
GraphReach(k, N) ==
  LET M == N \cup {edges[k][i].tgt : i \in {j \in DOMAIN edges[k] : edges[k][j].src \in N}}
  IN IF M = N THEN N ELSE GraphReach(k, M)

\* the edge e of run k is a transition ts.next emitted from its source
EdgeOfTs(k, e) ==
  LET s == StateOf(k, e.src)
  IN /\ s \in asked
     /\ e.t \in DOMAIN tsNext[s]
     /\ Covers(nodes[k][e.tgt], tsNext[s][e.t].s)

\* C4: if run returns reachable = true, the node it flagged final is
\* accepting and is reachable from a node flagged initial along edges of the
\* graph, each a transition that ts.next emitted from its source.
C4_FinalReachable ==
  (pc[1] = "done" /\ stats[1].reachable) =>
    /\ nodes[1][node[1]].final
    /\ Accepting(StateOf(1, node[1]))
    /\ node[1] \in GraphReach(1, Initials(1))
    /\ \A i \in DOMAIN edges[1] : EdgeOfTs(1, edges[1][i])

\* the final node is not an initial node: it was reached along an edge
C4_Witness ==
  /\ pc[1] = "done" /\ stats[1].reachable
  /\ ~nodes[1][node[1]].initial
  /\ node[1] \in GraphReach(1, Initials(1))

\* what bounds the steps run 1 still takes: a node is popped at most once
\* and there are at most MaxState of them to pop, and each turn of a for
\* loop takes a triple off sst
Variant ==
  (IF pc[1] = "start" THEN MaxTriples + 1 ELSE 0)
  + (MaxTriples + 2) * (MaxState - Len(order[1]))
  + Len(sst[1])
  + (IF pc[1] = "done" THEN 0 ELSE 1)

\* C5: run terminates under every waiting policy (the states are finitely
\* many and add_node reports each state new at most once): a run that has
\* not returned can take a step, and every step decreases Variant, which is
\* a natural number.  If no reachable state is accepting, the run returns
\* reachable = false.
C5_Terminates ==
  /\ [][Variant' < Variant]_vars
  /\ [](Variant \in Nat)
  /\ [](pc[1] # "done" => ENABLED Next)
  /\ []((pc[1] = "done" /\ \A s \in Reach : ~Accepting(s)) => ~stats[1].reachable)

\* a run over a cycle of ts returned, with labels that no state it found has
C5_Witness ==
  /\ pc[1] = "done"
  /\ labels # {}
  /\ Reach # {}
  /\ \A s \in Reach : ~Accepting(s)
  /\ \E i \in DOMAIN edges[1] : edges[1][i].tgt <= edges[1][i].src

\* the nodes that stand for state s in the graph of run k
Covering(k, s) == {i \in Ids(k) : Covers(nodes[k][i], s)}

\* the triples the successor loop of run k is done with, each with the node
\* ts.next was called on, in order
RECURSIVE Emissions(_, _)
Emissions(k, ns) ==
  IF ns = <<>> THEN <<>>
  ELSE LET l == tsNext[StateOf(k, Head(ns))]
       IN [i \in DOMAIN l |-> [src |-> Head(ns), tr |-> l[i]]] \o Emissions(k, Tail(ns))

Consumed(k) ==
  LET all == Emissions(k, expanded[k])
  IN SubSeq(all, 1, Len(all) - (IF pc[k] = "succ" THEN Len(sst[k]) ELSE 0))

C7_Seeding ==
  [][\A k \in Runs :
       /\ (pc[k] = "start" /\ Step(k)) => sst'[k] = tsInitial
       /\ (pc[k] = "seed" /\ Step(k)) =>
            LET s == Head(sst[k]).s
            IN /\ sst'[k] = Tail(sst[k])
               /\ pc'[k] = IF Tail(sst[k]) = <<>> THEN "loop" ELSE "seed"
               /\ IF Covering(k, s) = {}
                  THEN /\ nodes'[k] = Append(nodes[k],
                                             [state |-> s, initial |-> TRUE, final |-> FALSE])
                       /\ waiting'[k] = Append(waiting[k], Len(nodes[k]) + 1)
                  ELSE /\ \E n \in Covering(k, s) :
                            nodes'[k] = [nodes[k] EXCEPT ![n].initial = TRUE]
                       /\ waiting'[k] = waiting[k]]_vars

\* seeding flagged a node that was in the graph and was not initial, and did
\* not insert it in the waiting list
C7_Witness ==
  /\ pc[1] = "loop"
  /\ order[1] = <<>>
  /\ graph0 # <<>>
  /\ nodes[1][1].initial
  /\ waiting[1] # <<>>
  /\ 1 \notin Range(waiting[1])

\* C8: a turn of the successor loop adds exactly one edge, from the node
\* being expanded to the node add_node returns, and adds 1 to
\* visited_transitions; it adds a node and a waiting-list entry iff the
\* state is new; visited_transitions is the number of edges added.
C8_EdgePerTriple ==
  /\ [][\A k \in Runs :
          (pc[k] = "succ" /\ Step(k)) =>
            LET tr == Head(sst[k])
            IN /\ stats'[k] = [stats[k] EXCEPT !.visited_transitions = @ + 1]
               /\ IF Covering(k, tr.s) = {}
                  THEN /\ nodes'[k] = Append(nodes[k], NewNode(tr.s))
                       /\ waiting'[k] = Append(waiting[k], Len(nodes[k]) + 1)
                       /\ edges'[k] = Append(edges[k],
                            [src |-> node[k], tgt |-> Len(nodes[k]) + 1, t |-> tr.t])
                  ELSE /\ nodes'[k] = nodes[k]
                       /\ waiting'[k] = waiting[k]
                       /\ \E n \in Covering(k, tr.s) :
                            edges'[k] = Append(edges[k],
                              [src |-> node[k], tgt |-> n, t |-> tr.t])]_vars
  /\ [](\A k \in Runs : stats[k].visited_transitions = Len(edges[k]))

\* the graph holds a loop on a node and an edge to a node that subsumes the
\* successor, and fewer nodes than edges
C8_Witness ==
  /\ pc[1] = "done"
  /\ \E i \in DOMAIN edges[1] : edges[1][i].tgt = edges[1][i].src
  /\ \E i \in DOMAIN edges[1] :
       StateOf(1, edges[1][i].tgt) # Consumed(1)[i].tr.s
  /\ stats[1].visited_transitions = Len(edges[1])

NoDuplicates(f) == \A i, j \in DOMAIN f : f[i] = f[j] => i = j

\* C9: on an initially empty graph every node is inserted in the waiting
\* list at most once and popped at most once, visited_states is the number
\* of nodes popped, and it is at most the number of nodes, which is at most
\* the number of reachable states.
C9_VisitedOnce ==
  graph0 = <<>> =>
    /\ NoDuplicates(order[1] \o waiting[1])
    /\ stats[1].visited_states = Len(order[1])
    /\ stats[1].visited_states <= Len(nodes[1])
    /\ Len(nodes[1]) <= Cardinality(Reach)

\* an accepting node was popped second, and two edges lead to one node
C9_Witness ==
  /\ graph0 = <<>>
  /\ pc[1] = "done"
  /\ stats[1].reachable
  /\ stats[1].visited_states >= 2
  /\ \E i, j \in DOMAIN edges[1] : i # j /\ edges[1][i].tgt = edges[1][j].tgt

C11_WaitingCleared ==
  \A k \in Runs : pc[k] = "done" => waiting[k] = <<>>

\* run was given a waiting list (no node is initial: nothing was seeded) and
\* stopped on an accepting node while a node it had discovered was waiting
C11_Witness ==
  /\ pc[1] = "done"
  /\ stats[1].reachable
  /\ Initials(1) = {}
  /\ graph0 # <<>>
  /\ \E i \in Ids(1) : i > Len(graph0) /\ i \notin Range(order[1])

\* C12: when ts.initial or ts.next raises, the run is left at that call and
\* never returns; the graph holds the nodes, flags and edges it held before
\* the call, and no step changes the graph afterwards.  ts.initial and
\* ts.next are the only calls a run is left at.
C12_AbortKeepsGraph ==
  [][\A k \in Runs :
       /\ (pc[k] # "aborted" /\ pc'[k] = "aborted") =>
            /\ nodes'[k] = nodes[k]
            /\ edges'[k] = edges[k]
            /\ \/ pc[k] = "start"
               \/ /\ pc[k] = "loop"
                  /\ waiting[k] # <<>>
                  /\ ~Accepting(StateOf(k, First(waiting[k])))
       /\ pc[k] = "aborted" =>
            /\ pc'[k] = "aborted"
            /\ nodes'[k] = nodes[k]
            /\ edges'[k] = edges[k]]_vars

\* ts.next raised after the run had added nodes and edges to the graph, with
\* a node still in the waiting list
C12_Witness ==
  /\ pc[1] = "aborted"
  /\ Len(nodes[1]) > Len(graph0)
  /\ edges[1] # <<>>
  /\ Initials(1) # {}
  /\ waiting[1] # <<>>

MaxLoc == 2      \* largest number of locations of a map object
MaxClock == 2    \* largest number of clocks of a map object
MaxBound == 1    \* largest clock bound

\* no bound: below every bound
NO_BOUND == -1
Bound == {NO_BOUND} \cup 0..MaxBound

\* a null map pointer: no map
nullptr == <<>>

\* the processes of the system: a vloc holds one location for each
Procs == {1, 2}

\* map_t: a function from the clock ids 0..capacity-1 to bounds
capacity(map) == Cardinality(DOMAIN map)

clear(map) == [id \in 0..(capacity(map) - 1) |-> NO_BOUND]

allocate_map(clock_nb) == clear([id \in 0..(clock_nb - 1) |-> 0])

clone_map(m) == [id \in 0..(capacity(m) - 1) |-> m[id]]

\* update(map, id, bound) that also writes a bound equal to the one stored
updateNotLess(map, id, bound) ==
  IF bound < map[id]
  THEN [map |-> map, ret |-> FALSE]
  ELSE [map |-> [map EXCEPT ![id] = bound], ret |-> TRUE]

\* update(map, id, bound): the map afterwards and the value returned
update(map, id, bound) ==
  IF bound <= map[id]
  THEN [map |-> map, ret |-> FALSE]
  ELSE [map |-> [map EXCEPT ![id] = bound], ret |-> TRUE]

\* update(map, upd) that returns what the update of the last clock id returned
RECURSIVE update_loop_last(_, _, _, _)
update_loop_last(map, upd, id, modified) ==
  IF id >= capacity(map) THEN [map |-> map, ret |-> modified]
  ELSE LET r == update(map, id, upd[id])
       IN update_loop_last(r.map, upd, id + 1, r.ret)

\* update(map, upd): the loop over the clock ids of map
RECURSIVE update_loop(_, _, _, _)
update_loop(map, upd, id, modified) ==
  IF id >= capacity(map) THEN [map |-> map, ret |-> modified]
  ELSE LET r == update(map, id, upd[id])
       IN update_loop(r.map, upd, id + 1, modified \/ r.ret)

update_map(map, upd) == update_loop(map, upd, 0, FALSE)

\* ---- the map objects.  A local_lu_map_t has loc_nb, clock_nb and the
\* vectors L and U of maps, a local_m_map_t the vector M; a global_lu_map_t
\* has clock_nb and the pointers L and U, a global_m_map_t the pointer M.
\* ptrs tells what the pointers of a global object hold: "null", a "live"
\* map, or, after deallocate_map, the address of a map that is no more
\* ("dangling").
Classes == {"local_lu_map_t", "global_lu_map_t", "local_m_map_t", "global_m_map_t"}

IsLocal(m) == m.class \in {"local_lu_map_t", "local_m_map_t"}
IsLU(m) == m.class \in {"local_lu_map_t", "global_lu_map_t"}

\* the maps of an object and its scopes (a global object has one scope, 0)
MapNames(m) == IF IsLU(m) THEN {"L", "U"} ELSE {"M"}
Scopes(m) == IF IsLocal(m) THEN 0..(m.loc_nb - 1) ELSE {0}

\* the accessors L(id), U(id), M(id), L(), U(), M(): the map they refer to,
\* and the object once that map has been written
Stored(m, name, loc) == IF IsLocal(m) THEN m[name][loc] ELSE m[name]
Put(m, name, loc, map) ==
  IF IsLocal(m) THEN [m EXCEPT ![name][loc] = map] ELSE [m EXCEPT ![name] = map]

\* clear()
clear_object(m) ==
  CASE m.class = "local_lu_map_t" ->
         [m EXCEPT !.loc_nb = 0, !.clock_nb = 0, !.L = <<>>, !.U = <<>>]
    [] m.class = "local_m_map_t" ->
         [m EXCEPT !.loc_nb = 0, !.clock_nb = 0, !.M = <<>>]
    [] m.class = "global_lu_map_t" ->
         IF m.clock_nb > 0
         THEN [m EXCEPT !.clock_nb = 0, !.ptrs = "dangling", !.L = nullptr, !.U = nullptr]
         ELSE [m EXCEPT !.clock_nb = 0]
    [] m.class = "global_m_map_t" ->
         [m EXCEPT !.clock_nb = 0, !.ptrs = "null", !.M = nullptr]

\* resize that keeps, in a local_lu_map_t, the bounds of the locations and
\* clocks it had
resize_object_keep(m, loc_nb, clock_nb) ==
  LET kept(v, l, id) ==
        IF l < m.loc_nb /\ id < m.clock_nb THEN v[l][id] ELSE NO_BOUND
      keep(v) == [l \in 0..(loc_nb - 1) |->
                   IF clock_nb > 0
                   THEN [id \in 0..(clock_nb - 1) |-> kept(v, l, id)]
                   ELSE nullptr]
      vec == [l \in 0..(loc_nb - 1) |->
               IF clock_nb > 0 THEN clear(allocate_map(clock_nb)) ELSE nullptr]
      map == clear(allocate_map(clock_nb))
  IN CASE m.class = "local_lu_map_t" ->
            [m EXCEPT !.loc_nb = loc_nb, !.clock_nb = clock_nb,
                      !.L = keep(m.L), !.U = keep(m.U)]
       [] m.class = "local_m_map_t" ->
            [clear_object(m) EXCEPT
               !.loc_nb = loc_nb, !.clock_nb = clock_nb, !.M = vec]
       [] m.class = "global_lu_map_t" ->
            IF clock_nb > 0
            THEN [clear_object(m) EXCEPT
                    !.clock_nb = clock_nb, !.ptrs = "live", !.L = map, !.U = map]
            ELSE [clear_object(m) EXCEPT !.clock_nb = clock_nb]
       [] m.class = "global_m_map_t" ->
            IF clock_nb > 0
            THEN [clear_object(m) EXCEPT
                    !.clock_nb = clock_nb, !.ptrs = "live", !.M = map]
            ELSE [clear_object(m) EXCEPT !.clock_nb = clock_nb]

\* resize(loc_nb, clock_nb) of a local class, resize(clock_nb) of a global one
resize_object(m, loc_nb, clock_nb) ==
  LET vec == [l \in 0..(loc_nb - 1) |->
               IF clock_nb > 0 THEN clear(allocate_map(clock_nb)) ELSE nullptr]
      map == clear(allocate_map(clock_nb))
  IN CASE m.class = "local_lu_map_t" ->
            [clear_object(m) EXCEPT
               !.loc_nb = loc_nb, !.clock_nb = clock_nb, !.L = vec, !.U = vec]
       [] m.class = "local_m_map_t" ->
            [clear_object(m) EXCEPT
               !.loc_nb = loc_nb, !.clock_nb = clock_nb, !.M = vec]
       [] m.class = "global_lu_map_t" ->
            IF clock_nb > 0
            THEN [clear_object(m) EXCEPT
                    !.clock_nb = clock_nb, !.ptrs = "live", !.L = map, !.U = map]
            ELSE [clear_object(m) EXCEPT !.clock_nb = clock_nb]
       [] m.class = "global_m_map_t" ->
            IF clock_nb > 0
            THEN [clear_object(m) EXCEPT
                    !.clock_nb = clock_nb, !.ptrs = "live", !.M = map]
            ELSE [clear_object(m) EXCEPT !.clock_nb = clock_nb]

\* the constructors local_lu_map_t(loc_nb, clock_nb), global_lu_map_t(clock_nb),
\* local_m_map_t(loc_nb, clock_nb), global_m_map_t(clock_nb)
Fresh(class, loc_nb, clock_nb) ==
  resize_object(
    CASE class = "local_lu_map_t" ->
           [class |-> class, loc_nb |-> 0, clock_nb |-> 0, L |-> <<>>, U |-> <<>>]
      [] class = "local_m_map_t" ->
           [class |-> class, loc_nb |-> 0, clock_nb |-> 0, M |-> <<>>]
      [] class = "global_lu_map_t" ->
           [class |-> class, clock_nb |-> 0, ptrs |-> "null", L |-> nullptr, U |-> nullptr]
      [] class = "global_m_map_t" ->
           [class |-> class, clock_nb |-> 0, ptrs |-> "null", M |-> nullptr],
    loc_nb, clock_nb)

\* operator=(src) by copy, src another object
assign_object(m, src) ==
  LET vec(v) == [l \in 0..(src.loc_nb - 1) |->
                  IF src.clock_nb > 0 THEN clone_map(v[l]) ELSE nullptr]
  IN CASE m.class = "local_lu_map_t" ->
            [clear_object(m) EXCEPT
               !.loc_nb = src.loc_nb, !.clock_nb = src.clock_nb,
               !.L = vec(src.L), !.U = vec(src.U)]
       [] m.class = "local_m_map_t" ->
            [clear_object(m) EXCEPT
               !.loc_nb = src.loc_nb, !.clock_nb = src.clock_nb, !.M = vec(src.M)]
       [] m.class = "global_lu_map_t" ->
            IF src.clock_nb > 0
            THEN [clear_object(m) EXCEPT
                    !.clock_nb = src.clock_nb, !.ptrs = "live",
                    !.L = clone_map(src.L), !.U = clone_map(src.U)]
            ELSE [clear_object(m) EXCEPT !.clock_nb = src.clock_nb]
       [] m.class = "global_m_map_t" ->
            IF src.clock_nb > 0
            THEN [clear_object(m) EXCEPT
                    !.clock_nb = src.clock_nb, !.ptrs = "live", !.M = clone_map(src.M)]
            ELSE [clear_object(m) EXCEPT !.clock_nb = src.clock_nb]

\* operator=(src) by move, src another object
move_assign_object(m, src) ==
  CASE m.class = "local_lu_map_t" ->
         [clear_object(m) EXCEPT
            !.loc_nb = src.loc_nb, !.clock_nb = src.clock_nb, !.L = src.L, !.U = src.U]
    [] m.class = "local_m_map_t" ->
         [clear_object(m) EXCEPT
            !.loc_nb = src.loc_nb, !.clock_nb = src.clock_nb, !.M = src.M]
    [] m.class = "global_lu_map_t" ->
         [clear_object(m) EXCEPT
            !.clock_nb = src.clock_nb, !.ptrs = src.ptrs, !.L = src.L, !.U = src.U]
    [] m.class = "global_m_map_t" ->
         [clear_object(m) EXCEPT
            !.clock_nb = src.clock_nb, !.ptrs = src.ptrs, !.M = src.M]

\* a move that leaves the source its pointers and its sizes
moved_from_keep(src) == src

\* the object src after operator=(std::move(src)) of another object: its
\* vectors are cleared or its pointers are nullptr, and its sizes are 0
moved_from(src) ==
  CASE src.class = "local_lu_map_t" ->
         [src EXCEPT !.loc_nb = 0, !.clock_nb = 0, !.L = <<>>, !.U = <<>>]
    [] src.class = "local_m_map_t" ->
         [src EXCEPT !.loc_nb = 0, !.clock_nb = 0, !.M = <<>>]
    [] src.class = "global_lu_map_t" ->
         [src EXCEPT !.clock_nb = 0, !.ptrs = "null", !.L = nullptr, !.U = nullptr]
    [] src.class = "global_m_map_t" ->
         [src EXCEPT !.clock_nb = 0, !.ptrs = "null", !.M = nullptr]

\* the constructor by move from m: the new object (made) and m afterwards
\* (src).  local_lu_map_t(local_lu_map_t && m) takes the sizes and the
\* vectors of m, clears the vectors of m and sets the sizes of the new
\* object to 0, not those of m
move_construct(m) ==
  IF m.class = "local_lu_map_t"
  THEN [made |-> [m EXCEPT !.loc_nb = 0, !.clock_nb = 0],
        src |-> [m EXCEPT !.L = <<>>, !.U = <<>>]]
  ELSE [made |-> m, src |-> moved_from(m)]

\* the constructor by copy from m: the new object
copy_construct(m) ==
  LET vec(v) == [l \in 0..(m.loc_nb - 1) |->
                  IF m.clock_nb > 0 THEN clone_map(v[l]) ELSE nullptr]
      ptr(v) == IF m.clock_nb > 0 THEN clone_map(v) ELSE nullptr
      ptrs == IF m.clock_nb > 0 THEN "live" ELSE "null"
  IN CASE m.class = "local_lu_map_t" -> [m EXCEPT !.L = vec(m.L), !.U = vec(m.U)]
       [] m.class = "local_m_map_t" -> [m EXCEPT !.M = vec(m.M)]
       [] m.class = "global_lu_map_t" ->
            [m EXCEPT !.ptrs = ptrs, !.L = ptr(m.L), !.U = ptr(m.U)]
       [] m.class = "global_m_map_t" -> [m EXCEPT !.ptrs = ptrs, !.M = ptr(m.M)]

\* the elements <<name, id>> of the vectors (for a global class, the
\* pointers <<name, 0>>) that clear() and the destructor hand to
\* deallocate_map
deallocates(m) ==
  IF m.clock_nb > 0
  THEN {<<name, id>> : name \in MapNames(m),
                       id \in IF IsLocal(m) THEN 0..(m.loc_nb - 1) ELSE {0}}
  ELSE {}

\* bounds(L, U), bounds(M) of a global class without the clear of the
\* caller's maps
bounds_global_noclear(m, out) ==
  [name \in MapNames(m) |-> update_map(out[name], m[name]).map]

\* bounds(L, U), bounds(M) of a global class
bounds_global(m, out) ==
  [name \in MapNames(m) |-> update_map(clear(out[name]), m[name]).map]

\* bounds(id, L, U), bounds(id, M) without the clear of the caller's maps
bounds_loc_noclear(m, id, out) ==
  IF IsLocal(m)
  THEN [name \in MapNames(m) |-> update_map(out[name], m[name][id]).map]
  ELSE bounds_global_noclear(m, out)

\* bounds(id, L, U), bounds(id, M)
bounds_loc(m, id, out) ==
  IF IsLocal(m)
  THEN [name \in MapNames(m) |-> update_map(clear(out[name]), m[name][id]).map]
  ELSE bounds_global(m, out)

\* the loop of bounds(vloc, ...) over the elements of vloc, from the i-th on
RECURSIVE update_each(_, _, _, _)
update_each(map, vec, vloc, i) ==
  IF i > Len(vloc) THEN map
  ELSE update_each(update_map(map, vec[vloc[i]]).map, vec, vloc, i + 1)

\* bounds(vloc, ...) that returns the bounds of the last location of vloc
bounds_vloc_last(m, vloc, out) ==
  IF vloc = <<>> THEN [name \in MapNames(m) |-> clear(out[name])]
  ELSE bounds_loc(m, vloc[Len(vloc)], out)

\* bounds(vloc, L, U), bounds(vloc, M)
bounds_vloc(m, vloc, out) ==
  IF IsLocal(m)
  THEN [name \in MapNames(m) |-> update_each(clear(out[name]), m[name], vloc, 1)]
  ELSE bounds_global(m, out)

\* the objects a map object is assigned from: each has update(map, id, bound)
\* done on each id of each of its maps
Sources(class) ==
  LET Filled(m, bound) ==
        LET fill(map) == [id \in 0..(m.clock_nb - 1) |-> update(map, id, bound).map[id]]
            all(v) == IF m.clock_nb = 0 THEN v
                      ELSE IF IsLocal(m) THEN [l \in 0..(m.loc_nb - 1) |-> fill(v[l])]
                      ELSE fill(v)
        IN IF IsLU(m) THEN [m EXCEPT !.L = all(@), !.U = all(@)]
           ELSE [m EXCEPT !.M = all(@)]
  IN {Filled(Fresh(class, loc_nb, clock_nb), bound) :
        loc_nb \in {0, MaxLoc}, clock_nb \in {0, MaxClock}, bound \in {NO_BOUND, MaxBound}}

\* the maps a caller hands to a bounds query for it to fill
CallerMaps(m) ==
  {[n \in MapNames(m) |-> [id \in 0..(m.clock_nb - 1) |-> bound]] :
     bound \in {NO_BOUND, MaxBound}}

\* the location ids a bounds query may be given
LocIds(m) == IF IsLocal(m) THEN 0..(m.loc_nb - 1) ELSE 0..(MaxLoc - 1)

driverVars == <<tsVars, runVars>>

\* the maps of capacity clock_nb that calls of update leave: every clock
\* without a bound, every clock at the largest bound, the first clock at 0
Rows(clock_nb) ==
  {[id \in 0..(clock_nb - 1) |-> bound] : bound \in {NO_BOUND, MaxBound}}
    \cup {[id \in 0..(clock_nb - 1) |-> IF id = 0 THEN 0 ELSE NO_BOUND]}

\* the objects that a constructor, calls of update and clear leave
Objects ==
  LET R(m) == IF IsLocal(m) THEN [0..(m.loc_nb - 1) -> Rows(m.clock_nb)]
              ELSE Rows(m.clock_nb)
      WithRows(m) ==
        IF m.clock_nb = 0 THEN {m}
        ELSE IF IsLU(m) THEN {[m EXCEPT !.L = l, !.U = u] : l \in R(m), u \in R(m)}
        ELSE {[m EXCEPT !.M = x] : x \in R(m)}
      made == UNION {WithRows(Fresh(class, loc_nb, clock_nb)) :
                       class \in Classes, loc_nb \in 0..MaxLoc, clock_nb \in 0..MaxClock}
  IN made \cup {clear_object(m) : m \in made}

\* a map object has been constructed and filled, and no call is under way
InitBounds ==
  /\ driverIdle
  /\ zgIdle
  /\ taIdle
  /\ cbm \in Objects
  /\ cbout = [op |-> "none"]
  /\ calls = 0

\* update(m.L(loc), id, bound), and the same on U and M
Update ==
  /\ calls = 0
  /\ cbm.clock_nb > 0
  /\ \E name \in MapNames(cbm), loc \in Scopes(cbm),
        id \in 0..(cbm.clock_nb - 1), bound \in Bound :
       LET r == update(Stored(cbm, name, loc), id, bound)
       IN /\ cbm' = Put(cbm, name, loc, r.map)
          /\ cbout' = [op |-> "update", name |-> name, loc |-> loc, id |-> id,
                       bound |-> bound, ret |-> r.ret]
  /\ calls' = calls + 1
  /\ UNCHANGED <<driverVars, zgVars, taVars>>

\* m.bounds(id, ...)
BoundsLoc ==
  /\ calls = 0
  /\ cbm.clock_nb > 0
  /\ \E id \in LocIds(cbm), out \in CallerMaps(cbm) :
       cbout' = [op |-> "bounds", scope |-> "loc", id |-> id, vloc |-> <<>>,
                 out |-> out,
                 maps |-> bounds_loc(cbm, id, out)]
  /\ calls' = calls + 1
  /\ UNCHANGED <<driverVars, zgVars, taVars, cbm>>

\* m.bounds(vloc, ...)
BoundsVloc ==
  /\ calls = 0
  /\ cbm.clock_nb > 0
  /\ \E vloc \in [Procs -> LocIds(cbm)], out \in CallerMaps(cbm) :
       cbout' = [op |-> "bounds", scope |-> "vloc", id |-> 0, vloc |-> vloc,
                 out |-> out,
                 maps |-> bounds_vloc(cbm, vloc, out)]
  /\ calls' = calls + 1
  /\ UNCHANGED <<driverVars, zgVars, taVars, cbm>>

\* m.bounds(...) of a global map object
BoundsGlobal ==
  /\ calls = 0
  /\ cbm.clock_nb > 0
  /\ ~IsLocal(cbm)
  /\ \E out \in CallerMaps(cbm) :
       cbout' = [op |-> "bounds", scope |-> "none", id |-> 0, vloc |-> <<>>,
                 out |-> out,
                 maps |-> bounds_global(cbm, out)]
  /\ calls' = calls + 1
  /\ UNCHANGED <<driverVars, zgVars, taVars, cbm>>

\* m.clear()
Clear ==
  /\ calls = 0
  /\ cbm' = clear_object(cbm)
  /\ cbout' = [op |-> "clear"]
  /\ calls' = calls + 1
  /\ UNCHANGED <<driverVars, zgVars, taVars>>

\* m.resize(loc_nb, clock_nb), m.resize(clock_nb)
Resize ==
  /\ calls = 0
  /\ \E loc_nb \in IF IsLocal(cbm) THEN 0..MaxLoc ELSE {0}, clock_nb \in 0..MaxClock :
       /\ cbm' = resize_object(cbm, loc_nb, clock_nb)
       /\ cbout' = [op |-> "resize", loc_nb |-> loc_nb, clock_nb |-> clock_nb,
                    before |-> cbm]
  /\ calls' = calls + 1
  /\ UNCHANGED <<driverVars, zgVars, taVars>>

\* m = src: from itself (nothing is done) or from another object
CopyAssign ==
  /\ calls = 0
  /\ \/ /\ cbout' = [op |-> "assign", self |-> TRUE, src |-> cbm]
        /\ cbm' = cbm
     \/ \E src \in Sources(cbm.class) :
          /\ cbout' = [op |-> "assign", self |-> FALSE, src |-> src]
          /\ cbm' = assign_object(cbm, src)
  /\ calls' = calls + 1
  /\ UNCHANGED <<driverVars, zgVars, taVars>>

\* m = std::move(src): from itself (nothing is done) or from another object
MoveAssign ==
  /\ calls = 0
  /\ \/ /\ cbout' = [op |-> "move_assign", self |-> TRUE, src |-> cbm, moved |-> cbm]
        /\ cbm' = cbm
     \/ \E src \in Sources(cbm.class) :
          /\ cbout' = [op |-> "move_assign", self |-> FALSE, src |-> src,
                       moved |-> moved_from(src)]
          /\ cbm' = move_assign_object(cbm, src)
  /\ calls' = calls + 1
  /\ UNCHANGED <<driverVars, zgVars, taVars>>

\* a new object is constructed by move from m: cbm becomes the new object
MoveConstruct ==
  /\ calls = 0
  /\ cbm' = move_construct(cbm).made
  /\ cbout' = [op |-> "move_construct", src |-> cbm, moved |-> move_construct(cbm).src]
  /\ calls' = calls + 1
  /\ UNCHANGED <<driverVars, zgVars, taVars>>

\* a new object is constructed by copy from m: cbm becomes the new object
CopyConstruct ==
  /\ calls = 0
  /\ cbm' = copy_construct(cbm)
  /\ cbout' = [op |-> "copy_construct", src |-> cbm]
  /\ calls' = calls + 1
  /\ UNCHANGED <<driverVars, zgVars, taVars>>

NextBounds ==
  \/ MoveConstruct
  \/ CopyConstruct
  \/ Update
  \/ BoundsLoc
  \/ BoundsVloc
  \/ BoundsGlobal
  \/ Clear
  \/ Resize
  \/ CopyAssign
  \/ MoveAssign

SpecBounds == InitBounds /\ [][NextBounds]_vars

Max2(a, b) == IF a >= b THEN a ELSE b

\* the largest bound of a set of bounds, NO_BOUND if there is none
MaxOf(S) == IF S = {} THEN NO_BOUND ELSE CHOOSE x \in S : \A y \in S : y <= x

\* the (map, scope, clock) triples an object stores a bound for
Keys(m) ==
  IF m.class = "none" THEN {}
  ELSE {<<name, loc, id>> :
          name \in MapNames(m), loc \in Scopes(m), id \in 0..(m.clock_nb - 1)}

BoundAt(m, key) == Stored(m, key[1], key[2])[key[3]]

\* C14: update(map, id, bound) leaves map[id] at the larger of its value and
\* bound and every other entry as it was, and returns true iff bound was
\* above the value; with NO_BOUND the map is unchanged, and a bound that is
\* not NO_BOUND replaces NO_BOUND.
C14_UpdateMonotone ==
  [][cbout'.op = "update" =>
       LET name == cbout'.name
           loc == cbout'.loc
           id == cbout'.id
           bound == cbout'.bound
           old == Stored(cbm, name, loc)
           new == Stored(cbm', name, loc)
       IN /\ DOMAIN new = DOMAIN old
          /\ new[id] = Max2(old[id], bound)
          /\ \A other \in DOMAIN old \ {id} : new[other] = old[other]
          /\ cbout'.ret = (bound > old[id])
          /\ bound = NO_BOUND => (new = old /\ ~cbout'.ret)
          /\ (old[id] = NO_BOUND /\ bound # NO_BOUND) => (new[id] = bound /\ cbout'.ret)
          /\ \A b \in Bound : NO_BOUND <= b]_vars

\* update returned false for a bound equal to the one stored, which is not
\* NO_BOUND, in a map that has another clock
C14_Witness ==
  /\ cbout.op = "update"
  /\ ~cbout.ret
  /\ cbout.bound # NO_BOUND
  /\ Stored(cbm, cbout.name, cbout.loc)[cbout.id] = cbout.bound
  /\ cbm.clock_nb >= 2

C16_VlocMax ==
  (cbout.op = "bounds" /\ cbout.scope = "vloc" /\ IsLocal(cbm)) =>
    \A name \in MapNames(cbm), id \in 0..(cbm.clock_nb - 1) :
      LET fresh == [n \in MapNames(cbm) |-> allocate_map(cbm.clock_nb)]
          of(l) == bounds_loc(cbm, l, fresh)[name][id]
          each == {of(cbout.vloc[i]) : i \in DOMAIN cbout.vloc}
      IN /\ cbout.maps[name][id] = MaxOf(each)
         /\ cbout.maps[name][id] = NO_BOUND <=> each \subseteq {NO_BOUND}
         /\ \A l \in Scopes(cbm) : of(l) = Stored(cbm, name, l)[id]

\* the query was for two locations, the first with a larger bound than the
\* second for some clock, and with NO_BOUND in both for another
C16_Witness ==
  /\ cbout.op = "bounds" /\ cbout.scope = "vloc" /\ IsLocal(cbm)
  /\ \E name \in MapNames(cbm), id \in 0..(cbm.clock_nb - 1) :
       /\ Stored(cbm, name, cbout.vloc[1])[id] > Stored(cbm, name, cbout.vloc[2])[id]
       /\ Stored(cbm, name, cbout.vloc[2])[id] # NO_BOUND
       /\ cbout.maps[name][id] = Stored(cbm, name, cbout.vloc[1])[id]
  /\ \E name \in MapNames(cbm), id \in 0..(cbm.clock_nb - 1) :
       cbout.maps[name][id] = NO_BOUND

\* C17: a bounds query on a global map object gives, for every location id
\* and every vloc, the maps the object stores, which is what the query with
\* no scope gives.
C17_ScopeIgnored ==
  (cbout.op = "bounds" /\ ~IsLocal(cbm) /\ cbm.class # "none") =>
    /\ \A name \in MapNames(cbm) : cbout.maps[name] = cbm[name]
    /\ \A out \in CallerMaps(cbm) : cbout.maps = bounds_global(cbm, out)

\* the query was for a vloc on a global object that stores a bound
C17_Witness ==
  /\ cbout.op = "bounds" /\ cbout.scope = "vloc"
  /\ ~IsLocal(cbm)
  /\ cbout.vloc[1] # cbout.vloc[2]
  /\ \E key \in Keys(cbm) : BoundAt(cbm, key) # NO_BOUND
  /\ \E key \in Keys(cbm) : BoundAt(cbm, key) = NO_BOUND

\* ------------------------------------------------ the zone-graph states
MaxVal == 1      \* largest value of a location, of a variable and of the clock
HashBits == 8    \* width of a hash value, in bits

\* the two addresses at which a vloc, an intval or a zone may be
Ptrs == {1, 2}

\* the zones: the non-empty sets of values of the clock
Zones == (SUBSET (0..MaxVal)) \ {{}}

\* a state holds three pointers; each is modelled with the address (ptr) and
\* the object at that address (val).  The pairs of states: the first has
\* each of its parts at the first address, and parts at the same address
\* are the same object
StatePairs ==
  LET Part(C) == [ptr : Ptrs, val : C]
      State == [vloc : Part(0..MaxVal), intval : Part(0..MaxVal), zone : Part(Zones)]
      OneObject(a, b) == a.ptr = b.ptr => a.val = b.val
  IN {<<s1, s2>> \in State \X State :
        /\ s1.vloc.ptr = 1 /\ s1.intval.ptr = 1 /\ s1.zone.ptr = 1
        /\ OneObject(s1.vloc, s2.vloc)
        /\ OneObject(s1.intval, s2.intval)
        /\ OneObject(s1.zone, s2.zone)}

\* ta::operator==: the tuples of locations and the valuations are equal
ta_equal(s1, s2) == s1.vloc.val = s2.vloc.val /\ s1.intval.val = s2.intval.val

\* ta::shared_equal_to: the pointers to them are equal
ta_shared_equal_to(s1, s2) == s1.vloc.ptr = s2.vloc.ptr /\ s1.intval.ptr = s2.intval.ptr

\* the tests of inclusion of zone1 in the aLU abstraction of zone2, for the
\* bounds l and u of the clock: on the zones, on the zones after time has
\* elapsed, and on their synchronized valuations (every valuation of a
\* single clock is synchronized)
zone_alu_le(test, zone1, zone2, l, u) ==
  LET sim(v, w) == w = v \/ (l < w /\ w < v) \/ (u < v /\ v < w)
      aLU(Z) == {v \in 0..MaxVal : \E w \in Z : sim(v, w)}
      elapse(Z) == {v \in 0..MaxVal : \E w \in Z : w <= v}
  IN IF test = "time_elapse_alu_star"
     THEN elapse(zone1) \subseteq aLU(elapse(zone2))
     ELSE zone1 \subseteq aLU(zone2)

\* a ^ b on naturals
RECURSIVE Xor(_, _)
Xor(a, b) ==
  IF a = 0 THEN b
  ELSE IF b = 0 THEN a
  ELSE ((a + b) % 2) + 2 * Xor(a \div 2, b \div 2)

\* boost::hash_combine(seed, v), on HashBits bits: the new seed
hash_combine(seed, v) ==
  LET mod == 2 ^ HashBits
      golden == 185
  IN Xor(seed, (v + golden + ((seed * 64) % mod) + (seed \div 4)) % mod)

\* hash_value of a zone: combines the values of the zone from v on
RECURSIVE hash_zone(_, _, _)
hash_zone(zone, v, seed) ==
  IF v > MaxVal THEN seed
  ELSE hash_zone(zone, v + 1, IF v \in zone THEN hash_combine(seed, v + 1) ELSE seed)

\* ta::hash_value and ta::shared_hash_value
ta_hash_value(s) == hash_combine(hash_combine(0, s.vloc.val), s.intval.val)
ta_shared_hash_value(s) == hash_combine(hash_combine(0, s.vloc.ptr), s.intval.ptr)

\* operator==(s1, s2)
state_eq(s1, s2) == ta_equal(s1, s2) /\ s1.zone.val = s2.zone.val

shared_equal_to(s1, s2) == ta_shared_equal_to(s1, s2) /\ s1.zone.ptr = s2.zone.ptr

\* operator<= that only compares the zones
state_le_zones(s1, s2) == s1.zone.val \subseteq s2.zone.val

\* operator<=(s1, s2)
state_le(s1, s2) == ta_equal(s1, s2) /\ s1.zone.val \subseteq s2.zone.val

is_alu_star_le(s1, s2, l, u) ==
  ta_equal(s1, s2) /\ zone_alu_le("alu_star", s1.zone.val, s2.zone.val, l, u)

is_time_elapse_alu_star_le(s1, s2, l, u) ==
  ta_equal(s1, s2) /\ zone_alu_le("time_elapse_alu_star", s1.zone.val, s2.zone.val, l, u)

is_sync_alu_le(s1, s2, l, u) ==
  ta_equal(s1, s2) /\ zone_alu_le("sync_alu", s1.zone.val, s2.zone.val, l, u)

\* shared_is_le without the test of the zones: equal zone pointers only
shared_is_le_ptr(s1, s2) == ta_shared_equal_to(s1, s2) /\ s1.zone.ptr = s2.zone.ptr

shared_is_le(s1, s2) ==
  ta_shared_equal_to(s1, s2)
    /\ (s1.zone.ptr = s2.zone.ptr \/ s1.zone.val \subseteq s2.zone.val)

shared_is_alu_star_le(s1, s2, l, u) ==
  ta_shared_equal_to(s1, s2)
    /\ (s1.zone.ptr = s2.zone.ptr
          \/ zone_alu_le("alu_star", s1.zone.val, s2.zone.val, l, u))

shared_is_time_elapse_alu_star_le(s1, s2, l, u) ==
  ta_shared_equal_to(s1, s2)
    /\ (s1.zone.ptr = s2.zone.ptr
          \/ zone_alu_le("time_elapse_alu_star", s1.zone.val, s2.zone.val, l, u))

shared_is_sync_alu_le(s1, s2, l, u) ==
  ta_shared_equal_to(s1, s2)
    /\ (s1.zone.ptr = s2.zone.ptr
          \/ zone_alu_le("sync_alu", s1.zone.val, s2.zone.val, l, u))

\* ta::lexical_cmp: the tuples of locations are compared, and on a tie the
\* valuations; 0 on equal contents, else the difference at the first
\* difference
ta_lexical_cmp(s1, s2) ==
  IF s1.vloc.val # s2.vloc.val THEN s1.vloc.val - s2.vloc.val
  ELSE s1.intval.val - s2.intval.val

\* lexical_cmp of two zones: 0 on equal zones, else decided by the least
\* value of the clock that one zone holds and the other does not
zone_lexical_cmp(zone1, zone2) ==
  LET diff == {v \in 0..MaxVal : (v \in zone1) # (v \in zone2)}
  IN IF diff = {} THEN 0 ELSE IF Min(diff) \in zone1 THEN -1 ELSE 1

\* lexical_cmp that compares the zones first
lexical_cmp_zone_first(s1, s2) ==
  LET zone_cmp == zone_lexical_cmp(s1.zone.val, s2.zone.val)
  IN IF zone_cmp # 0 THEN zone_cmp ELSE ta_lexical_cmp(s1, s2)

lexical_cmp(s1, s2) ==
  LET ta_cmp == ta_lexical_cmp(s1, s2)
  IN IF ta_cmp # 0 THEN ta_cmp ELSE zone_lexical_cmp(s1.zone.val, s2.zone.val)

\* hash_value that combines the pointer to the zone
hash_value_zone_ptr(s) == hash_combine(ta_hash_value(s), s.zone.ptr)

hash_value(s) == hash_combine(ta_hash_value(s), hash_zone(s.zone.val, 0, 0))

shared_hash_value(s) == hash_combine(ta_shared_hash_value(s), s.zone.ptr)

\* two states have been made
InitStates ==
  /\ driverIdle
  /\ cbIdle
  /\ taIdle
  /\ zs \in StatePairs
  /\ zgout = [op |-> "none"]

\* s1 == s2, shared_equal_to(s1, s2)
Equal ==
  /\ zgout.op = "none"
  /\ zgout' = [op |-> "equal", eq |-> state_eq(zs[1], zs[2]),
               shared |-> shared_equal_to(zs[1], zs[2])]
  /\ UNCHANGED <<driverVars, cbVars, taVars, zs>>

\* s1 <= s2, s2 <= s1, shared_is_le(s1, s2), shared_is_le(s2, s1)
LessEqual ==
  /\ zgout.op = "none"
  /\ zgout' = [op |-> "le", le |-> state_le(zs[1], zs[2]), ge |-> state_le(zs[2], zs[1]),
               shared_le |-> shared_is_le(zs[1], zs[2]),
               shared_ge |-> shared_is_le(zs[2], zs[1])]
  /\ UNCHANGED <<driverVars, cbVars, taVars, zs>>

\* the three aLU tests of s1 against s2 and the three shared ones, for bounds
\* l and u of the clock
AluLe ==
  /\ zgout.op = "none"
  /\ \E l \in Bound, u \in Bound :
       zgout' = [op |-> "alu", l |-> l, u |-> u,
                 alu_star |-> is_alu_star_le(zs[1], zs[2], l, u),
                 time_elapse_alu_star |-> is_time_elapse_alu_star_le(zs[1], zs[2], l, u),
                 sync_alu |-> is_sync_alu_le(zs[1], zs[2], l, u),
                 shared |->
                   [alu_star |-> shared_is_alu_star_le(zs[1], zs[2], l, u),
                    time_elapse_alu_star |->
                      shared_is_time_elapse_alu_star_le(zs[1], zs[2], l, u),
                    sync_alu |-> shared_is_sync_alu_le(zs[1], zs[2], l, u)]]
  /\ UNCHANGED <<driverVars, cbVars, taVars, zs>>

\* hash_value and shared_hash_value of s1 and of s2
Hash ==
  /\ zgout.op = "none"
  /\ zgout' = [op |-> "hash",
               hash |-> <<hash_value(zs[1]), hash_value(zs[2])>>,
               shared |-> <<shared_hash_value(zs[1]), shared_hash_value(zs[2])>>]
  /\ UNCHANGED <<driverVars, cbVars, taVars, zs>>

\* lexical_cmp(s1, s2), lexical_cmp(s2, s1)
LexicalCmp ==
  /\ zgout.op = "none"
  /\ zgout' = [op |-> "lexical_cmp", cmp |-> lexical_cmp(zs[1], zs[2]),
               rev |-> lexical_cmp(zs[2], zs[1])]
  /\ UNCHANGED <<driverVars, cbVars, taVars, zs>>

NextStates ==
  \/ LexicalCmp
  \/ Equal
  \/ LessEqual
  \/ AluLe
  \/ Hash

SpecStates == InitStates /\ [][NextStates]_vars

\* the two states have the same tuple of locations and the same valuation
SameDiscrete == zs[1].vloc.val = zs[2].vloc.val /\ zs[1].intval.val = zs[2].intval.val

\* C18: s1 == s2 iff vloc and intval are equal and the zones are equal;
\* s1 <= s2 iff vloc and intval are equal and zone1 is included in zone2;
\* each aLU test holds iff vloc and intval are equal and the aLU test of the
\* zones holds.  So equal states are related both ways by <= and by each aLU
\* test, and states with different vloc or intval are related by none.
C18_Componentwise ==
  /\ zgout.op = "equal" =>
       zgout.eq = (SameDiscrete /\ zs[1].zone.val = zs[2].zone.val)
  /\ zgout.op = "le" =>
       /\ zgout.le = (SameDiscrete /\ zs[1].zone.val \subseteq zs[2].zone.val)
       /\ zgout.ge = (SameDiscrete /\ zs[2].zone.val \subseteq zs[1].zone.val)
       /\ state_eq(zs[1], zs[2]) => (zgout.le /\ zgout.ge)
       /\ ~SameDiscrete => (~zgout.le /\ ~zgout.ge)
  /\ zgout.op = "alu" =>
       /\ \A test \in {"alu_star", "time_elapse_alu_star", "sync_alu"} :
            /\ zgout[test] = (SameDiscrete /\ zone_alu_le(test, zs[1].zone.val,
                                                          zs[2].zone.val, zgout.l, zgout.u))
            /\ state_eq(zs[1], zs[2]) => zgout[test]
            /\ ~SameDiscrete => ~zgout[test]

\* s1 <= s2 held and s2 <= s1 did not, for states with the same vloc and
\* intval at different addresses and zone1 strictly inside zone2
C18_Witness ==
  /\ zgout.op = "le"
  /\ zgout.le /\ ~zgout.ge
  /\ zs[1].vloc.ptr # zs[2].vloc.ptr /\ zs[1].intval.ptr # zs[2].intval.ptr
  /\ zs[1].zone.val # zs[2].zone.val

\* C19: s1 == s2 implies hash_value(s1) = hash_value(s2), and
\* shared_equal_to(s1, s2) implies shared_hash_value(s1) = shared_hash_value(s2).
C19_HashConsistent ==
  zgout.op = "hash" =>
    /\ state_eq(zs[1], zs[2]) => zgout.hash[1] = zgout.hash[2]
    /\ shared_equal_to(zs[1], zs[2]) => zgout.shared[1] = zgout.shared[2]

\* the hashes were computed for two equal states whose parts are at
\* different addresses: hash_value is the same, shared_hash_value is not
C19_Witness ==
  /\ zgout.op = "hash"
  /\ state_eq(zs[1], zs[2])
  /\ zs[1].vloc.ptr # zs[2].vloc.ptr
  /\ zs[1].intval.ptr # zs[2].intval.ptr
  /\ zs[1].zone.ptr # zs[2].zone.ptr
  /\ zgout.hash[1] = zgout.hash[2]
  /\ zgout.shared[1] # zgout.shared[2]

\* --------------------------------------------------------------- ta::next
MaxEdges == 2    \* largest number of edges of a vedge

\* the calls of next: for each edge of the vedge, whether its source location
\* is the location of its process in vloc; whether intval satisfies the
\* invariant of vloc and the guard of the edges, whether the statements of
\* the edges can be applied to intval, and whether the updated intval
\* satisfies the invariant of the updated vloc
NextCalls ==
  UNION {[op : {"next"}, edges : [1..n -> BOOLEAN], src_invariant : BOOLEAN,
          guard : BOOLEAN, statement : BOOLEAN, tgt_invariant : BOOLEAN] :
           n \in 1..MaxEdges}

\* next that evaluates the guard before the source invariant
ta_next_guard_first(call) ==
  IF \E i \in DOMAIN call.edges : ~call.edges[i] THEN "STATE_INCOMPATIBLE_EDGE"
  ELSE IF ~call.guard THEN STATE_GUARD_VIOLATED
  ELSE IF ~call.src_invariant THEN "STATE_SRC_INVARIANT_VIOLATED"
  ELSE IF ~call.statement THEN "STATE_STATEMENT_FAILED"
  ELSE IF ~call.tgt_invariant THEN "STATE_TGT_INVARIANT_VIOLATED"
  ELSE STATE_OK

\* next(system, vloc, intval, vedge, src_invariant, guard, reset,
\* tgt_invariant, edges): the status returned
ta_next(call) ==
  IF \E i \in DOMAIN call.edges : ~call.edges[i] THEN "STATE_INCOMPATIBLE_EDGE"
  ELSE IF ~call.src_invariant THEN "STATE_SRC_INVARIANT_VIOLATED"
  ELSE IF ~call.guard THEN STATE_GUARD_VIOLATED
  ELSE IF ~call.statement THEN "STATE_STATEMENT_FAILED"
  ELSE IF ~call.tgt_invariant THEN "STATE_TGT_INVARIANT_VIOLATED"
  ELSE STATE_OK

\* a call of next is about to be made
InitTa ==
  /\ driverIdle
  /\ cbIdle
  /\ zgIdle
  /\ taIn \in NextCalls
  /\ taOut = [op |-> "none"]

\* the call returns
TaNext ==
  /\ taIn.op = "next"
  /\ taOut.op = "none"
  /\ taOut' = [op |-> "next", status |-> ta_next(taIn)]
  /\ UNCHANGED <<driverVars, cbVars, zgVars, taIn>>

SpecTa == InitTa /\ [][TaNext]_vars

\* the checks of next that fail for the call taIn, numbered in the order
\* source-edge compatibility, source invariant, guard, statement, target
\* invariant
FailedChecks ==
  LET failed == <<\E i \in DOMAIN taIn.edges : ~taIn.edges[i], ~taIn.src_invariant,
                  ~taIn.guard, ~taIn.statement, ~taIn.tgt_invariant>>
  IN {i \in DOMAIN failed : failed[i]}

DelayCalls ==
  [op : {"delay_allowed"}, system : [Procs -> [0..(MaxLoc - 1) -> BOOLEAN]],
   vloc : [Procs -> 0..(MaxLoc - 1)]]

\* delay_allowed(system, vloc, allowed): the bit vector allowed afterwards
delay_allowed_bits(call) ==
  [i \in Procs |-> IF call.system[i][call.vloc[i]] THEN 1 ELSE 0]

\* delay_allowed(system, vloc) that is true if some location permits delay
delay_allowed_some(call) == \E i \in Procs : call.system[i][call.vloc[i]]

\* delay_allowed(system, vloc)
delay_allowed(call) == \A i \in Procs : call.system[i][call.vloc[i]]

\* a call of delay_allowed is about to be made
InitDelay ==
  /\ driverIdle
  /\ cbIdle
  /\ zgIdle
  /\ taIn \in DelayCalls
  /\ taOut = [op |-> "none"]

\* both forms of delay_allowed return
TaDelayAllowed ==
  /\ taIn.op = "delay_allowed"
  /\ taOut.op = "none"
  /\ taOut' = [op |-> "delay_allowed", ret |-> delay_allowed(taIn),
               allowed |-> delay_allowed_bits(taIn)]
  /\ UNCHANGED <<driverVars, cbVars, zgVars, taIn>>

SpecDelay == InitDelay /\ [][TaDelayAllowed]_vars

\* C21: delay_allowed(system, vloc) is true iff the location of every
\* process in vloc permits delay, which is iff every bit of the vector that
\* delay_allowed(system, vloc, allowed) fills is 1; the bit of a process is 1
\* iff its location in vloc permits delay.
C21_DelayAllowed ==
  taOut.op = "delay_allowed" =>
    /\ taOut.ret = (\A i \in Procs : taIn.system[i][taIn.vloc[i]])
    /\ taOut.ret = (\A i \in Procs : taOut.allowed[i] = 1)
    /\ \A i \in Procs : taOut.allowed[i] \in {0, 1}
    /\ \A i \in Procs : taOut.allowed[i] = 1 <=> taIn.system[i][taIn.vloc[i]]

\* delay_allowed returned false for a vloc in which the location of one
\* process permits delay and that of another does not, in a system whose
\* processes each have a location that permits delay
C21_Witness ==
  /\ taOut.op = "delay_allowed"
  /\ ~taOut.ret
  /\ \E i, j \in Procs : taOut.allowed[i] = 1 /\ taOut.allowed[j] = 0
  /\ \A i \in Procs : \E l \in 0..(MaxLoc - 1) : taIn.system[i][l]

\* ---- claims on the construction and the end of the map objects
\* what a move from the local object old has to leave: the object made has
\* the sizes and the maps of old; src, which is old afterwards, has sizes 0;
\* the vectors of both have loc_nb elements; clear() of either indexes no
\* vector out of range, and each map of old is deallocated by clear() of
\* exactly one of the two
MoveLeaves(made, src, old) ==
  /\ made.loc_nb = old.loc_nb /\ made.clock_nb = old.clock_nb
  /\ \A name \in MapNames(old) : made[name] = old[name]
  /\ src.loc_nb = 0 /\ src.clock_nb = 0
  /\ \A o \in {made, src}, name \in MapNames(old) :
       Cardinality(DOMAIN o[name]) = o.loc_nb
  /\ \A o \in {made, src} : \A e \in deallocates(o) : e[2] \in DOMAIN o[e[1]]
  /\ old.clock_nb > 0 =>
       \A name \in MapNames(old) : \A id \in DOMAIN old[name] :
         (<<name, id>> \in deallocates(made)) # (<<name, id>> \in deallocates(src))

\* a local map object has been made by move: by the constructor, or by the
\* assignment from another object
MovedLocal ==
  /\ cbout.op \in {"move_construct", "move_assign"}
  /\ IsLocal(cbm)
  /\ cbout.op = "move_assign" => ~cbout.self

\* C22 as claimed: after the construction of a local map object by move from
\* m, and after a move assignment from m, the new object has the sizes and
\* the maps of m, m is empty with sizes 0, the vectors of both have
\* loc_number() elements, and clearing both deallocates every map exactly
\* once and indexes no vector out of range.
C22_MoveLeavesBoth == MovedLocal => MoveLeaves(cbm, cbout.moved, cbout.src)

\* the same without the constructor of local_lu_map_t
C22_MoveLeavesBothButLU ==
  (MovedLocal /\ ~(cbout.op = "move_construct" /\ cbm.class = "local_lu_map_t"))
    => MoveLeaves(cbm, cbout.moved, cbout.src)

\* a local_lu_map_t with locations, clocks and a bound was moved from by the
\* constructor: the new object holds its maps and reports no location and
\* no clock, so that its clear() deallocates no map, and clear() of the
\* object moved from indexes its empty vectors
C22_Witness ==
  /\ cbout.op = "move_construct"
  /\ cbm.class = "local_lu_map_t"
  /\ cbout.src.loc_nb = MaxLoc /\ cbout.src.clock_nb = MaxClock
  /\ \E key \in Keys(cbout.src) : BoundAt(cbout.src, key) # NO_BOUND
  /\ cbm.L = cbout.src.L /\ cbm.U = cbout.src.U
  /\ cbm.loc_nb = 0 /\ cbm.clock_nb = 0
  /\ deallocates(cbm) = {}
  /\ cbout.moved.loc_nb = MaxLoc /\ cbout.moved.clock_nb = MaxClock
  /\ \E e \in deallocates(cbout.moved) : e[2] \notin DOMAIN cbout.moved[e[1]]

\* the pointers of a global map object with clocks refer to live maps of
\* clock_nb clocks
LivePtrs(m) ==
  m.clock_nb > 0 =>
    (m.ptrs = "live" /\ \A name \in MapNames(m) : capacity(m[name]) = m.clock_nb)

\* the calls on a global map object that run clear() on it
ClearsObject(out) ==
  \/ out.op \in {"clear", "resize"}
  \/ (out.op \in {"assign", "move_assign"} /\ ~out.self)

\* the calls that take the maps of another object
TakesMaps(out) ==
  \/ out.op = "move_construct"
  \/ (out.op = "move_assign" /\ ~out.self)

\* C23: a call on a global map object (clear or the destructor, resize, the
\* constructors by copy and by move, the assignments by copy and by move)
\* deallocates maps only if the object has clocks, and then they are live;
\* it reads the maps of its source only if the source has clocks, and then
\* they are live; it leaves the object, and the source of a move, with live
\* maps of clock_nb clocks if clock_nb > 0, and the source of a move with
\* no clock and no map, so that no map belongs to two objects.
C23_GlobalPointers ==
  [][(cbm.class \in {"global_lu_map_t", "global_m_map_t"} /\ cbout'.op # "none") =>
       /\ LivePtrs(cbm)
       /\ LivePtrs(cbm')
       /\ (ClearsObject(cbout') /\ deallocates(cbm) # {}) =>
            (cbm.clock_nb > 0 /\ cbm.ptrs = "live")
       /\ (ClearsObject(cbout') /\ cbm.ptrs = "dangling") => deallocates(cbm) = {}
       /\ (cbout'.op \in {"assign", "copy_construct"} /\ cbout'.src.clock_nb > 0) =>
            (cbout'.src.ptrs = "live" /\ LivePtrs(cbout'.src))
       /\ TakesMaps(cbout') =>
            /\ cbout'.moved.clock_nb = 0
            /\ cbout'.moved.ptrs = "null"
            /\ deallocates(cbout'.moved) = {}
            /\ cbm'.clock_nb = cbout'.src.clock_nb
            /\ cbm'.ptrs = cbout'.src.ptrs]_vars

\* a global_lu_map_t that clear() has left with two dangling pointers and no
\* clock has been moved into a new object: the new object holds the dangling
\* pointers and has no clock, so that it deallocates nothing
C23_Witness ==
  /\ cbout.op = "move_construct"
  /\ cbm.class = "global_lu_map_t"
  /\ cbout.src.ptrs = "dangling"
  /\ cbm.ptrs = "dangling"
  /\ cbm.clock_nb = 0
  /\ deallocates(cbm) = {}
  /\ cbout.moved.ptrs = "null"

\* the bounds query that a call recorded in out has made, on the object m
\* and the caller's maps given
Query(m, out, given) ==
  CASE out.scope = "loc" -> bounds_loc(m, out.id, given)
    [] out.scope = "vloc" -> bounds_vloc(m, out.vloc, given)
    [] out.scope = "none" -> bounds_global(m, given)

Maps(clock_nb) == [0..(clock_nb - 1) -> Bound]

\* a map of the caller has been allocated and updated, and no call is
\* under way
InitUpdate ==
  /\ driverIdle
  /\ zgIdle
  /\ taIdle
  /\ \E clock_nb \in 1..MaxClock :
       cbm \in {[class |-> "map_t", clock_nb |-> clock_nb, map |-> map] :
                  map \in Maps(clock_nb)}
  /\ cbout = [op |-> "none"]
  /\ calls = 0

\* update(map, upd1), then update(map, upd1) again, then update(map, upd2);
\* and, on a clone of the map as it was, update(clone, upd2) then
\* update(clone, upd1)
UpdateMap ==
  /\ calls = 0
  /\ cbm.class = "map_t"
  /\ \E upd1 \in Maps(cbm.clock_nb), upd2 \in Maps(cbm.clock_nb) :
       LET first == update_map(cbm.map, upd1)
           again == update_map(first.map, upd1)
           then2 == update_map(again.map, upd2)
           clone2 == update_map(clone_map(cbm.map), upd2)
           clone1 == update_map(clone2.map, upd1)
       IN /\ cbm' = [cbm EXCEPT !.map = then2.map]
          /\ cbout' = [op |-> "update_map", before |-> cbm.map,
                       upd1 |-> upd1, upd2 |-> upd2,
                       first |-> first, again |-> again, clone |-> clone1.map]
  /\ calls' = calls + 1
  /\ UNCHANGED <<driverVars, zgVars, taVars>>

SpecUpdate == InitUpdate /\ [][UpdateMap]_vars

InitGiven ==
  /\ graph0 \in GivenGraphs
  /\ \E m \in 0..Len(graph0) :
       /\ tsInitial = Sst([i \in 1..m |-> [status |-> STATE_OK, s |-> graph0[i].state]])
       /\ waiting = [k \in Runs |-> IF k = 1 THEN [i \in 1..m |-> i] ELSE <<>>]
  /\ tsNext = [s \in States |-> <<>>]
  /\ asked = {}
  /\ labels \in LabelSets
  /\ policy \in Policies
  /\ interning \in Interning
  /\ pc = [k \in Runs |-> IF k = 1 THEN "loop" ELSE "start"]
  /\ nodes = [k \in Runs |-> IF k = 1 THEN graph0 ELSE <<>>]
  /\ edges = [k \in Runs |-> <<>>]
  /\ sst = [k \in Runs |-> <<>>]
  /\ node = [k \in Runs |-> 0]
  /\ stats = [k \in Runs |->
               [visited_states |-> 0, visited_transitions |-> 0, reachable |-> FALSE]]
  /\ order = [k \in Runs |-> <<>>]
  /\ expanded = [k \in Runs |-> <<>>]
  /\ libIdle

\* run 1 is run_from_waiting alone; run 2 starts once run 1 has returned
NextGiven ==
  \/ PopAccepting(1)
  \/ PopExpand(1)
  \/ SuccTriple(1)
  \/ Exit(1)
  \/ pc[1] = "done" /\ Initial(2)
  \/ pc[1] = "done" /\ SeedNode(2)
  \/ pc[1] = "done" /\ PopAccepting(2)
  \/ pc[1] = "done" /\ PopExpand(2)
  \/ pc[1] = "done" /\ SuccTriple(2)
  \/ pc[1] = "done" /\ Exit(2)

SpecGiven == InitGiven /\ [][NextGiven]_vars

\* the nodes that the edges of run k lead to
Discovered(k) == {edges[k][i].tgt : i \in 1..Len(edges[k])}

\* C26: the run from a waiting list that the caller has filled never is at
\* the call of ts.initial nor in the loop over the initial triples, and
\* flags no node initial; a node enters the waiting list only as the new
\* node of a triple of ts.next, and the nodes popped are nodes of the list
\* given or targets of edges the run has made; and when the list given holds
\* every node of the graph, the run ends with the counters, the flag
\* reachable, the order of visit, the edges and the states and final flags
\* of the nodes that the run by policy ends with on an empty graph, whose
\* seeding leaves the same list.
C26_GivenList ==
  [][/\ pc'[1] \in {"loop", "succ", "done"}
     /\ \A i \in 1..Len(nodes'[1]) : ~nodes'[1][i].initial
     /\ \A n \in Range(waiting'[1]) \ Range(waiting[1]) :
          /\ pc[1] = "succ"
          /\ n = Len(nodes[1]) + 1
          /\ edges'[1][Len(edges'[1])].tgt = n
     /\ \A n \in Range(order'[1]) :
          n \in 1..Len(tsInitial) \/ n \in {edges'[1][i].tgt : i \in 1..Len(edges'[1])}
     /\ (pc'[1] = "done" /\ pc'[2] = "done" /\ Len(tsInitial) = Len(graph0)) =>
          /\ stats'[1] = stats'[2]
          /\ order'[1] = order'[2]
          /\ edges'[1] = edges'[2]
          /\ Len(nodes'[1]) = Len(nodes'[2])
          /\ \A i \in 1..Len(nodes'[1]) :
               /\ nodes'[1][i].state = nodes'[2][i].state
               /\ nodes'[1][i].final = nodes'[2][i].final
               /\ nodes'[2][i].initial <=> i <= Len(tsInitial)]_vars

\* both runs are over; the list given held the two nodes of the graph, a
\* third node was discovered through ts.next and popped, and both runs
\* count three states and one transition; no node of run 1 is initial, two
\* of run 2 are
C26_Witness ==
  /\ pc[1] = "done"
  /\ pc[2] = "done"
  /\ Len(graph0) = 2
  /\ Len(tsInitial) = 2
  /\ Len(order[1]) = 3
  /\ 3 \in Discovered(1)
  /\ stats[1].visited_states = 3
  /\ stats[1].visited_transitions = 1
  /\ stats[2] = stats[1]
  /\ Initials(1) = {}
  /\ Initials(2) = {1, 2}

\* the two states are interned: the pointers to two vloc, two intval or two
\* zones are equal iff what they point to is equal
Interned ==
  \A part \in {"vloc", "intval", "zone"} :
    (zs[1][part].ptr = zs[2][part].ptr) <=> (zs[1][part].val = zs[2][part].val)

AluTests == {"alu_star", "time_elapse_alu_star", "sync_alu"}

\* C27: on interned states shared_equal_to is ==, shared_is_le is <= and
\* each shared aLU test is the aLU test; on any two states shared_equal_to
\* implies ==.  On states with the same pointers a shared aLU test holds
\* without a test of the zones, so that it is the aLU test iff the test of
\* the zones holds of a zone and itself.
C27_SharedAgrees ==
  /\ (zgout.op = "equal" /\ Interned) => (zgout.shared <=> zgout.eq)
  /\ (zgout.op = "equal" /\ zgout.shared) => zgout.eq
  /\ (zgout.op = "le" /\ Interned) =>
       ((zgout.shared_le <=> zgout.le) /\ (zgout.shared_ge <=> zgout.ge))
  /\ (zgout.op = "alu" /\ Interned) =>
       \A test \in AluTests : zgout.shared[test] <=> zgout[test]
  /\ (zgout.op = "alu" /\ shared_equal_to(zs[1], zs[2])) =>
       \A test \in AluTests :
         /\ zgout.shared[test]
         /\ zgout[test] <=>
              zone_alu_le(test, zs[1].zone.val, zs[1].zone.val, zgout.l, zgout.u)

\* two interned states with the same vloc and intval, whose zones are two
\* objects, the first strictly included in the second: shared_is_le and <=
\* hold from the first to the second and not back
C27_Witness ==
  /\ zgout.op = "le"
  /\ Interned
  /\ ta_shared_equal_to(zs[1], zs[2])
  /\ zs[1].zone.ptr # zs[2].zone.ptr
  /\ zs[1].zone.val # zs[2].zone.val
  /\ zgout.shared_le /\ zgout.le
  /\ ~zgout.shared_ge /\ ~zgout.ge

Sign(i) == IF i < 0 THEN -1 ELSE IF i > 0 THEN 1 ELSE 0

\* C28: lexical_cmp(s1, s2) has the sign of the comparison of the discrete
\* parts (vloc, then intval) when they differ, and is the comparison of the
\* zones when they are equal; it is 0 iff s1 == s2, and its sign is the
\* opposite of the sign of lexical_cmp(s2, s1).
C28_LexicalOrder ==
  zgout.op = "lexical_cmp" =>
    /\ IF SameDiscrete
       THEN zgout.cmp = zone_lexical_cmp(zs[1].zone.val, zs[2].zone.val)
       ELSE /\ zgout.cmp # 0
            /\ Sign(zgout.cmp) =
                 IF zs[1].vloc.val # zs[2].vloc.val
                 THEN Sign(zs[1].vloc.val - zs[2].vloc.val)
                 ELSE Sign(zs[1].intval.val - zs[2].intval.val)
    /\ (zgout.cmp = 0) <=> state_eq(zs[1], zs[2])
    /\ Sign(zgout.cmp) = -Sign(zgout.rev)

\* the first state has the smaller vloc and the zone that compares larger:
\* lexical_cmp is negative, and positive the other way round
C28_Witness ==
  /\ zgout.op = "lexical_cmp"
  /\ zs[1].vloc.val < zs[2].vloc.val
  /\ zone_lexical_cmp(zs[1].zone.val, zs[2].zone.val) > 0
  /\ zgout.cmp < 0
  /\ zgout.rev > 0

\* ---- a local_lu_map_t and a copy of it, with the maps on a heap: an
\* object holds loc_nb, clock_nb and, in L and U, the addresses of its maps
\* (0: nullptr); heap[a].map is the map at address a, and heap[a].live
\* is false once deallocate_map was called on it.

\* clear() of obj: deallocate_map of each of its maps if it has clocks
heap_clear(heap, obj) ==
  LET freed == IF obj.clock_nb > 0 THEN Range(obj.L) \cup Range(obj.U) ELSE {}
  IN [a \in DOMAIN heap |->
        IF a \in freed THEN [live |-> FALSE, map |-> nullptr] ELSE heap[a]]

\* resize(loc_nb, clock_nb): clear(), then allocate_map and clear of each map
heap_resize(heap, obj, loc_nb, clock_nb) ==
  LET cleared == heap_clear(heap, obj)
      n == IF clock_nb > 0 THEN 2 * loc_nb ELSE 0
      at(id, k) == IF clock_nb > 0 THEN Len(cleared) + (2 * id) + k ELSE 0
  IN [heap |-> cleared \o [i \in 1..n |->
                             [live |-> TRUE, map |-> clear(allocate_map(clock_nb))]],
      obj |-> [loc_nb |-> loc_nb, clock_nb |-> clock_nb,
               L |-> [id \in 0..(loc_nb - 1) |-> at(id, 1)],
               U |-> [id \in 0..(loc_nb - 1) |-> at(id, 2)]]]

\* a copy that takes the addresses of the maps of m
heap_copy_shallow(heap, dst, m) == [heap |-> heap, obj |-> m]

\* the constructor by copy from m (dst has no map) and dst = m: clear() of dst,
\* then clone_map of each map of m
heap_copy(heap, dst, m) ==
  LET cleared == heap_clear(heap, dst)
      n == IF m.clock_nb > 0 THEN 2 * m.loc_nb ELSE 0
      at(id, k) == IF m.clock_nb > 0 THEN Len(cleared) + (2 * id) + k ELSE 0
      src(i) == IF i % 2 = 1 THEN m.L[(i - 1) \div 2] ELSE m.U[(i - 1) \div 2]
  IN [heap |-> cleared \o [i \in 1..n |->
                             [live |-> TRUE, map |-> clone_map(cleared[src(i)].map)]],
      obj |-> [loc_nb |-> m.loc_nb, clock_nb |-> m.clock_nb,
               L |-> [id \in 0..(m.loc_nb - 1) |-> at(id, 1)],
               U |-> [id \in 0..(m.loc_nb - 1) |-> at(id, 2)]]]

\* m has been constructed and its maps updated; copy is not constructed
\* yet, or is an object of one location and one clock
InitHeap ==
  /\ driverIdle
  /\ zgIdle
  /\ taIdle
  /\ \E loc_nb \in 0..MaxLoc, clock_nb \in 0..MaxClock, assigned \in BOOLEAN :
       LET Empty == [loc_nb |-> 0, clock_nb |-> 0, L |-> <<>>, U |-> <<>>]
           made == heap_resize(<<>>, Empty, loc_nb, clock_nb)
           other == IF assigned THEN heap_resize(made.heap, Empty, 1, 1)
                    ELSE [heap |-> made.heap, obj |-> Empty]
       IN \E rows \in [DOMAIN made.heap -> Rows(clock_nb)] :
            cbm = [class |-> "heap",
                   heap |-> [a \in DOMAIN other.heap |->
                               IF a \in DOMAIN rows THEN [live |-> TRUE, map |-> rows[a]]
                               ELSE other.heap[a]],
                   m |-> made.obj, copy |-> other.obj, constructed |-> assigned]
  /\ cbout = [op |-> "none"]
  /\ calls = 0

\* m.resize(loc_nb, clock_nb); on an m of no location and no clock this is
\* also the body of the constructor local_lu_map_t(loc_nb, clock_nb)
HeapResize ==
  /\ calls = 0
  /\ cbm.class = "heap"
  /\ \E loc_nb \in 0..MaxLoc, clock_nb \in 0..MaxClock :
       LET r == heap_resize(cbm.heap, cbm.m, loc_nb, clock_nb)
       IN /\ cbm' = [cbm EXCEPT !.heap = r.heap, !.m = r.obj]
          /\ cbout' = [op |-> "resize", loc_nb |-> loc_nb, clock_nb |-> clock_nb,
                       before |-> cbm]
  /\ calls' = calls + 1
  /\ UNCHANGED <<driverVars, zgVars, taVars>>

\* local_lu_map_t copy(m), or copy = m on a copy constructed before
HeapCopy ==
  /\ calls = 0
  /\ cbm.class = "heap"
  /\ LET r == heap_copy(cbm.heap, cbm.copy, cbm.m)
     IN /\ cbm' = [cbm EXCEPT !.heap = r.heap, !.copy = r.obj, !.constructed = TRUE]
        /\ cbout' = [op |-> "copy", before |-> cbm]
  /\ calls' = calls + 1
  /\ UNCHANGED <<driverVars, zgVars, taVars>>

\* update(copy.L(loc), id, bound) or update(copy.U(loc), id, bound), once
\* the copy is made
HeapUpdateCopy ==
  /\ calls = 1
  /\ cbout.op = "copy"
  /\ cbm.copy.clock_nb > 0
  /\ \E name \in {"L", "U"}, loc \in 0..(cbm.copy.loc_nb - 1),
        id \in 0..(cbm.copy.clock_nb - 1), bound \in Bound :
       LET a == cbm.copy[name][loc]
           r == update(cbm.heap[a].map, id, bound)
       IN /\ cbm' = [cbm EXCEPT !.heap[a].map = r.map]
          /\ cbout' = [op |-> "update_copy", name |-> name, loc |-> loc, id |-> id,
                       bound |-> bound, ret |-> r.ret, before |-> cbm]
  /\ calls' = calls + 1
  /\ UNCHANGED <<driverVars, zgVars, taVars>>

\* a call on a map object of one of the four classes, or calls on a
\* local_lu_map_t and its copy on the heap
InitCopies == InitBounds \/ InitHeap

NextCopies ==
  \/ (cbm.class # "heap" /\ NextBounds)
  \/ HeapResize
  \/ HeapCopy
  \/ HeapUpdateCopy

SpecCopies == InitCopies /\ [][NextCopies]_vars

\* the maps of obj on heap, by name and location
MapsOf(heap, obj) ==
  [name \in {"L", "U"} |-> [id \in 0..(obj.loc_nb - 1) |->
     IF obj.clock_nb > 0 THEN heap[obj[name][id]].map ELSE nullptr]]

\* the addresses of the maps of obj
AddressesOf(obj) == (Range(obj.L) \cup Range(obj.U)) \ {0}

\* obj has loc_nb entries in L and in U, and if it has clocks each is the
\* address of a map of clock_nb clocks that is its alone
WellFormed(heap, obj) ==
  /\ DOMAIN obj.L = 0..(obj.loc_nb - 1)
  /\ DOMAIN obj.U = 0..(obj.loc_nb - 1)
  /\ obj.clock_nb > 0 =>
       /\ Cardinality(AddressesOf(obj)) = 2 * obj.loc_nb
       /\ \A a \in AddressesOf(obj) :
            a \in DOMAIN heap /\ heap[a].live /\ capacity(heap[a].map) = obj.clock_nb

\* an object of one of the four classes reports the sizes given, and each
\* of its maps has clock_nb clocks
Reports(m, loc_nb, clock_nb) ==
  /\ m.clock_nb = clock_nb
  /\ IsLocal(m) => m.loc_nb = loc_nb
  /\ IsLocal(m) => \A name \in MapNames(m) : DOMAIN m[name] = 0..(loc_nb - 1)
  /\ \A key \in Keys(m) : key[3] \in 0..(clock_nb - 1)
  /\ clock_nb > 0 =>
       \A name \in MapNames(m), loc \in Scopes(m) :
         capacity(Stored(m, name, loc)) = clock_nb

\* C29: after the constructor and after resize(loc_nb, clock_nb) an object
\* of any of the four classes reports loc_nb and clock_nb and holds NO_BOUND
\* for every clock of every scope, whatever it held; after a copy (the
\* constructor by copy, the assignment from another object) the copy reports
\* the sizes of the original and holds its bounds.  On the heap, each map of
\* a resized local_lu_map_t is a new map of clock_nb clocks that holds
\* NO_BOUND; each map of a copy is a new map with the capacity and the
\* bounds of the map of the original, the original is as it was, and an
\* update of a map of the copy changes that map alone, so no map of the
\* original.
C29_FreshAndCopies ==
  /\ (cbout.op = "resize" /\ cbm.class # "heap") =>
       /\ Reports(cbm, cbout.loc_nb, cbout.clock_nb)
       /\ \A key \in Keys(cbm) : BoundAt(cbm, key) = NO_BOUND
       /\ (IsLocal(cbm) /\ cbout.clock_nb > 0) =>
            cbm = Fresh(cbm.class, cbout.loc_nb, cbout.clock_nb)
  /\ (cbout.op = "copy_construct" \/ (cbout.op = "assign" /\ ~cbout.self)) =>
       /\ Reports(cbm, IF IsLocal(cbm) THEN cbout.src.loc_nb ELSE 0, cbout.src.clock_nb)
       /\ Keys(cbm) = Keys(cbout.src)
       /\ \A key \in Keys(cbm) : BoundAt(cbm, key) = BoundAt(cbout.src, key)
  /\ (cbout.op = "resize" /\ cbm.class = "heap") =>
       /\ cbm.m.loc_nb = cbout.loc_nb
       /\ cbm.m.clock_nb = cbout.clock_nb
       /\ WellFormed(cbm.heap, cbm.m)
       /\ AddressesOf(cbm.m) \cap DOMAIN cbout.before.heap = {}
       /\ \A a \in AddressesOf(cbm.m) : \A id \in 0..(cbout.clock_nb - 1) :
            cbm.heap[a].map[id] = NO_BOUND
  /\ cbout.op = "copy" =>
       /\ cbm.copy.loc_nb = cbm.m.loc_nb
       /\ cbm.copy.clock_nb = cbm.m.clock_nb
       /\ WellFormed(cbm.heap, cbm.copy)
       /\ WellFormed(cbm.heap, cbm.m)
       /\ AddressesOf(cbm.copy) \cap AddressesOf(cbm.m) = {}
       /\ AddressesOf(cbm.copy) \cap DOMAIN cbout.before.heap = {}
       /\ MapsOf(cbm.heap, cbm.copy) = MapsOf(cbm.heap, cbm.m)
       /\ cbm.m = cbout.before.m
       /\ MapsOf(cbm.heap, cbm.m) = MapsOf(cbout.before.heap, cbout.before.m)
  /\ cbout.op = "update_copy" =>
       /\ MapsOf(cbm.heap, cbm.m) = MapsOf(cbout.before.heap, cbm.m)
       /\ \A a \in DOMAIN cbm.heap :
            a # cbm.copy[cbout.name][cbout.loc] => cbm.heap[a] = cbout.before.heap[a]
       /\ cbout.ret =>
            MapsOf(cbm.heap, cbm.copy)[cbout.name][cbout.loc][cbout.id] = cbout.bound

\* a map of the copy of an object of MaxLoc locations and MaxClock clocks
\* has been given a bound larger than the one the original holds: the copy
\* and the original now differ for that clock
C29_Witness ==
  /\ cbout.op = "update_copy"
  /\ cbout.ret
  /\ cbm.m.loc_nb = MaxLoc
  /\ cbm.m.clock_nb = MaxClock
  /\ MapsOf(cbm.heap, cbm.copy)[cbout.name][cbout.loc][cbout.id] = MaxBound
  /\ MapsOf(cbm.heap, cbm.m)[cbout.name][cbout.loc][cbout.id] < MaxBound
  /\ MapsOf(cbout.before.heap, cbm.copy) = MapsOf(cbout.before.heap, cbm.m)
====
